---- MODULE Spec2Model ----
(***************************************************************************)
(* Branch / transaction / revertible core of the shared tree:              *)
(* SharedTreeBranch (shared-tree-core/branch.ts) and TreeCheckout          *)
(* (shared-tree/treeCheckout.ts).                                          *)
(*                                                                         *)
(* Commits are objects on a heap (`commits`); a commit is identified by    *)
(* its index (identity is by reference), 0 stands for `undefined`.         *)
(* The change family is external to the core.  It is modelled by the free  *)
(* group over edit atoms: compose is concatenation with cancellation of    *)
(* adjacent inverse pairs, invert reverses and flips, rebase marks every   *)
(* atom as carried over one more base.  Only the group laws are assumed.   *)
(***************************************************************************)
EXTENDS Integers, Sequences, FiniteSets, TLC

\* ------------------------------------------------------------------ bounds
TxCommits == 6      \* commit objects ever allocated, transaction scenarios
FkCommits == 4      \* commit objects ever allocated, fork isolation scenarios
BrCommits == 6      \* commit objects ever allocated, merge / rebase scenarios
RvCommits == 4      \* commit objects ever allocated, revertible scenarios
TrCommits == 4      \* commit objects ever allocated, trimming scenarios
NfCommits == 3      \* commit objects ever allocated, forks during transactions
BodyEdits == 2      \* edits made by the body of a runTransaction
MaxDepth == 2       \* nesting depth of transactions
MaxInbound == 4     \* messages handed to RemoteMessageProcessor.process
MaxGrouped == 1     \* messages inside a grouped batch
MaxNodes == 4       \* anchor nodes ever indexed by the AnchorTreeIndex

Undefined == 0
RootRevision == 1

VARIABLES
    commits,    \* heap of GraphCommit objects: [parent, revision, change]
    nextRev,    \* next tag returned by mintRevisionTag
    branches,   \* SharedTreeBranch objects: [head, disposed, subscribed] and
                \* the branch they were forked from (origin)
    checkouts,  \* TreeCheckout objects
    factories,  \* revertible factories kept by `changed` listeners
    handles,    \* revertible handles held by the application
    txg,        \* per checkout, per open transaction: what it started from
    batchInProgress,    \* RemoteMessageProcessor.batchInProgress: <<>> when
                        \* undefined, else one record
    inboundCount,       \* messages handed to process() so far
    indexNodes,         \* AnchorTreeIndex.nodes: key -> anchor nodes (<<>>: no entry)
    indexAnchors,       \* AnchorTreeIndex.anchors: the anchor nodes it tracks
    anchorNodes         \* the anchor nodes indexed so far: the key and the
                        \* `nodes` their afterDestroy listener closed over, and
                        \* whether they were destroyed

tree == <<commits, nextRev, branches, checkouts, factories, handles, txg>>
processor == <<batchInProgress, inboundCount>>
index == <<indexNodes, indexAnchors, anchorNodes>>
vars == <<commits, nextRev, branches, checkouts, factories, handles, txg,
          batchInProgress, inboundCount, indexNodes, indexAnchors, anchorNodes>>

\* ------------------------------------------------------------ sequences
Last(s) == s[Len(s)]
Front(s) == SubSeq(s, 1, Len(s) - 1)

RECURSIVE Reverse(_)
Reverse(s) == IF s = <<>> THEN <<>> ELSE Append(Reverse(Tail(s)), Head(s))

RECURSIVE Flatten(_)
Flatten(ss) == IF ss = <<>> THEN <<>> ELSE Head(ss) \o Flatten(Tail(ss))

Range(s) == {s[i] : i \in 1..Len(s)}

\* -------------------------------------------------- change family (§6)
\* An edit made through the editor: one atom named after the revision the
\* editor minted for it.
EditChange(id, schema) == <<[id |-> id, inv |-> FALSE, rb |-> 0, schema |-> schema]>>

IsInverseOf(a, b) ==
    a.id = b.id /\ a.rb = b.rb /\ a.schema = b.schema /\ a.inv # b.inv

\* Append the atoms of `rest` to `stack`, cancelling adjacent inverse pairs.
RECURSIVE Cancel(_, _)
Cancel(stack, rest) ==
    IF rest = <<>> THEN stack
    ELSE IF stack # <<>> /\ IsInverseOf(Last(stack), Head(rest))
         THEN Cancel(Front(stack), Tail(rest))
         ELSE Cancel(Append(stack, Head(rest)), Tail(rest))

\* rebaser.compose(changes): `tagged` is a sequence of tagged changes
\* (commits are tagged changes too), first applied first.
Compose(tagged) == Cancel(<<>>, Flatten([i \in 1..Len(tagged) |-> tagged[i].change]))

\* rebaser.invert(change, isRollback, revision)
Invert(change) ==
    [i \in 1..Len(change) |->
        [change[Len(change) + 1 - i] EXCEPT !.inv = ~@]]

\* rebaser.rebase(change, over)
Rebase(change, over) ==
    IF over = <<>> THEN change
    ELSE [i \in 1..Len(change) |-> [change[i] EXCEPT !.rb = @ + 1]]

\* hasSchemaChange(change)
hasSchemaChange(change) == \E i \in 1..Len(change) : change[i].schema

\* Applying a change to the forest / stored schema (visitDelta,
\* storedSchema.apply): the forest is the reduced word of what was applied.
ApplyChange(forest, change) == Cancel(forest, change)

\* ------------------------------------------------------- commit graph
\* findAncestor([c, path], r => r.revision === rev): the match, or Undefined
RECURSIVE findAncestor(_, _, _)
findAncestor(cs, c, rev) ==
    IF c = Undefined THEN Undefined
    ELSE IF cs[c].revision = rev THEN c
    ELSE findAncestor(cs, cs[c].parent, rev)

\* The commits on which findAncestor evaluates its predicate, in the order
\* of the walk (child first); the match, when there is one, is the last.
RECURSIVE Visited(_, _, _)
Visited(cs, c, rev) ==
    IF c = Undefined THEN <<>>
    ELSE IF cs[c].revision = rev THEN <<c>>
    ELSE <<c>> \o Visited(cs, cs[c].parent, rev)

\* The `path` output of findAncestor: the visited commits without the
\* match, as its callers consume it (commitTransaction composes it as the
\* squash, so the oldest commit comes first); empty when nothing matches.
AncestorPath(cs, c, rev) ==
    IF findAncestor(cs, c, rev) = Undefined THEN <<>>
    ELSE Reverse(Front(Visited(cs, c, rev)))

\* Every commit from the root to c, oldest first.
RECURSIVE Ancestry(_, _)
Ancestry(cs, c) ==
    IF c = Undefined THEN <<>> ELSE Append(Ancestry(cs, cs[c].parent), c)

\* The revisions of the commits of a path
Revisions(cs, path) == [i \in 1..Len(path) |-> cs[path[i]].revision]

\* ------------------------------------------------------------- worlds
\* The handlers are functions from world to world; `err` is the exception
\* in flight ("" when none), `throws` the branches whose beforeChange listener
\* rejects the change it is given by throwing.
World ==
    [cs |-> commits, nr |-> nextRev, br |-> branches, co |-> checkouts,
     fa |-> factories, hs |-> handles, ev |-> <<>>, err |-> "",
     res |-> [val |-> "", targetCommits |-> <<>>], throws |-> {}]

Throw(w, kind) == [w EXCEPT !.err = kind]

NoEvent == [type |-> "", kind |-> "", change |-> <<>>, newCommits |-> <<>>,
            removedCommits |-> <<>>, info |-> "", fork |-> 0, revisions |-> {}]

\* The checkout constructed over branch b (0 when b is a bare branch).
OwnerOf(w, b) ==
    IF \E c \in 1..Len(w.co) : w.co[c].branch = b
    THEN CHOOSE c \in 1..Len(w.co) : w.co[c].branch = b
    ELSE 0

Record(w, name, b, e) ==
    [w EXCEPT !.ev = Append(@,
        [name |-> name, branch |-> b, type |-> e.type, kind |-> e.kind,
         change |-> e.change, newCommits |-> e.newCommits,
         removedCommits |-> e.removedCommits, info |-> e.info,
         fork |-> e.fork, revisions |-> e.revisions, head |-> w.br[b].head])]

\* An isTransacting that only sees nested transactions
isTransactingNested(w, c) == Len(w.co[c].transactions) > 1

\* TreeCheckout.isTransacting
isTransacting(w, c) == Len(w.co[c].transactions) # 0

\* --------------------------------------------------- SharedTreeBranch
\* mintCommit(parent, {revision, change}); the new commit is Len(w.cs) + 1
mintCommit(w, parent, revision, change) ==
    [w EXCEPT !.cs = Append(@,
        [parent |-> parent, revision |-> revision, change |-> change])]

\* The "dispose" listeners that startTransaction registers on every fork it
\* tracks: forks.delete(fork)
OnForkDisposed(w, f) ==
    [w EXCEPT !.co = [c \in 1..Len(w.co) |->
        [w.co[c] EXCEPT !.transactions = [i \in 1..Len(w.co[c].transactions) |->
            [w.co[c].transactions[i] EXCEPT !.forks = @ \ {f}]]]]]

\* A dispose that leaves the branch subscribed to its trimmer
BranchDisposeSubscribed(w, b) ==
    IF w.br[b].disposed THEN w
    ELSE OnForkDisposed(
            Record([w EXCEPT !.br[b].disposed = TRUE], "dispose", b, NoEvent), b)

\* SharedTreeBranch.dispose
BranchDispose(w, b) ==
    IF w.br[b].disposed THEN w
    ELSE OnForkDisposed(
            Record([w EXCEPT !.br[b].subscribed = FALSE, !.br[b].disposed = TRUE],
                   "dispose", b, NoEvent), b)

\* onForkTransitive(branch, onFork) as registered by startTransaction: every
\* frame listening to b records the fork f and listens to f as well.
onForkTransitive(w, b, f) ==
    [w EXCEPT !.co = [c \in 1..Len(w.co) |->
        [w.co[c] EXCEPT !.transactions = [i \in 1..Len(w.co[c].transactions) |->
            IF b \in w.co[c].transactions[i].watched
            THEN [w.co[c].transactions[i] EXCEPT
                    !.watched = @ \cup {f}, !.forks = @ \cup {f}]
            ELSE w.co[c].transactions[i]]]]]

\* SharedTreeBranch.fork(commit); the new branch is Len(w.br) + 1
BranchFork(w, b, commit) ==
    IF w.br[b].disposed THEN Throw(w, "assert")
    ELSE LET f == Len(w.br) + 1
             w1 == [w EXCEPT !.br = Append(@,
                        [head |-> commit, disposed |-> FALSE, subscribed |-> TRUE,
                         origin |-> b])]
         IN onForkTransitive(
                Record(w1, "fork", b, [NoEvent EXCEPT !.fork = f]), b, f)

\* The revertible factory built by the afterChange listener, invoked with
\* the current value of its withinEventContext variable.
\* f = [revision, kind, commit]
getRevertible(w, c, f, withinEventContext) ==
    LET Pinned(w1, nb) ==
            IF w1.err # "" THEN w1
            ELSE [w1 EXCEPT
                    !.co[c].revertibleCommitBranches =
                        @ \cup {[revision |-> f.revision, branch |-> nb]},
                    !.co[c].revertibles =
                        @ \cup {[revision |-> f.revision, kind |-> f.kind]},
                    !.hs = @ \cup {[co |-> c, revision |-> f.revision, kind |-> f.kind]}]
    IN IF ~withinEventContext THEN Throw(w, "UsageError")
       ELSE IF \E p \in w.co[c].revertibleCommitBranches : p.revision = f.revision
       THEN Throw(w, "UsageError")
       ELSE Pinned(BranchFork(w, w.co[c].branch, f.commit), Len(w.br) + 1)

\* A `changed` listener of the application that invokes the factory n times
\* while the event is being dispatched and catches what it throws.  With
\* n = 0 it only keeps the factory, with n < 0 it ignores it.
RECURSIVE AppTakes(_, _, _, _)
AppTakes(w, c, f, n) ==
    LET Taken(w1) ==
            Record([w1 EXCEPT !.err = ""], "getRevertible", w.co[c].branch,
                [NoEvent EXCEPT !.info = IF w1.err = "" THEN "ok" ELSE w1.err,
                                !.newCommits = <<f.commit>>])
    IN IF n <= 0 THEN w
       ELSE AppTakes(Taken(getRevertible(w, c, f, TRUE)), c, f, n - 1)

\* A round of the loop that never closes the event context of the factory
NotifyCommitOpen(w, c, commit, kind, take) ==
    LET revision == w.cs[commit].revision
        offer == ~hasSchemaChange(w.cs[commit].change)
        f == [revision |-> revision, kind |-> kind, commit |-> commit]
        Emitted(w1) ==
            IF ~offer \/ take < 0 THEN w1
            ELSE [AppTakes(w1, c, f, take) EXCEPT
                    !.fa = @ \cup {[co |-> c, revision |-> revision, kind |-> kind,
                                    commit |-> commit, withinEventContext |-> TRUE]}]
    IN Emitted(Record(w, "changed", w.co[c].branch,
                [NoEvent EXCEPT !.type = "local", !.kind = kind,
                                !.info = IF offer THEN "factory" ELSE "",
                                !.newCommits = <<commit>>]))

\* One round of the loop in the afterChange listener: build the factory,
\* emit `changed`, then withinEventContext = false.
NotifyCommit(w, c, commit, kind, take) ==
    LET revision == w.cs[commit].revision
        offer == ~hasSchemaChange(w.cs[commit].change)
        f == [revision |-> revision, kind |-> kind, commit |-> commit]
        Emitted(w1) ==
            IF ~offer \/ take < 0 THEN w1
            ELSE [AppTakes(w1, c, f, take) EXCEPT
                    !.fa = @ \cup {[co |-> c, revision |-> revision, kind |-> kind,
                                    commit |-> commit, withinEventContext |-> FALSE]}]
    IN Emitted(Record(w, "changed", w.co[c].branch,
                [NoEvent EXCEPT !.type = "local", !.kind = kind,
                                !.info = IF offer THEN "factory" ELSE "",
                                !.newCommits = <<commit>>]))

\* A loop that notifies for the newest of the commits only
NotifyAllLast(w, c, cms, kind, take) ==
    IF cms = <<>> THEN w
    ELSE NotifyCommit(w, c, cms[Len(cms)], kind, take)

\* for (const commit of event.newCommits)
RECURSIVE NotifyAll(_, _, _, _, _)
NotifyAll(w, c, cms, kind, take) ==
    IF cms = <<>> THEN w
    ELSE NotifyAll(NotifyCommit(w, c, Head(cms), kind, take), c, Tail(cms), kind, take)

\* --------------------------------------------------- DetachedFieldIndex
\* The removed roots are entries [root, revision], the revision being the
\* one that last touched the root.  visitDelta: an edit detaches the root it
\* names under the revision of the change, its inverse attaches the root
\* again; schema changes touch no root.
RECURSIVE visitDelta(_, _, _)
visitDelta(roots, change, revision) ==
    IF change = <<>> THEN roots
    ELSE LET a == Head(change)
             rest == {e \in roots : e.root # a.id}
         IN visitDelta(IF a.schema THEN roots
                       ELSE IF a.inv THEN rest
                       ELSE rest \cup {[root |-> a.id, revision |-> revision]},
                       Tail(change), revision)

getRootsLastTouchedByRevision(roots, revision) ==
    {e \in roots : e.revision = revision}

deleteRootsLastTouchedByRevision(roots, revision) ==
    roots \ getRootsLastTouchedByRevision(roots, revision)

\* updateMajor(current, updated)
updateMajor(roots, current, updated) ==
    {IF e.revision = current THEN [e EXCEPT !.revision = updated] ELSE e : e \in roots}

\* TreeCheckout's beforeChange listener: apply the change to the forest and
\* to the removed roots
BeforeChange(w, c, e) ==
    IF e.change # <<>>
    THEN [w EXCEPT !.co[c].forest = ApplyChange(@, e.change[1].change),
                   !.co[c].removedRoots =
                        visitDelta(@, e.change[1].change, e.change[1].revision)]
    ELSE w

\* An afterChange listener that also notifies during a transaction
AfterChangeAlways(w, c, e, take) ==
    IF e.type = "append" THEN NotifyAll(w, c, e.newCommits, e.kind, take)
    ELSE IF e.type = "rebase"
    THEN Record(w, "changed", w.co[c].branch,
            [NoEvent EXCEPT !.type = "remote", !.kind = "Default"])
    ELSE w

\* TreeCheckout's afterChange listener
AfterChange(w, c, e, take) ==
    IF isTransacting(w, c) THEN w
    ELSE IF e.type = "append" THEN NotifyAll(w, c, e.newCommits, e.kind, take)
    ELSE IF e.type = "rebase"
    THEN Record(w, "changed", w.co[c].branch,
            [NoEvent EXCEPT !.type = "remote", !.kind = "Default"])
    ELSE w

\* #events.emit(name, changeEvent) on branch b: the listeners run in the
\* caller's stack, and what a listener throws leaves emit
Emit(w, b, name, e, take) ==
    LET Listen(w1, c) ==
            IF name = "beforeChange" /\ b \in w.throws THEN Throw(w1, "Error")
            ELSE IF c = 0 THEN w1
            ELSE IF name = "beforeChange" THEN BeforeChange(w1, c, e)
            ELSE AfterChange(w1, c, e, take)
    IN Listen(Record(w, name, b, e), OwnerOf(w, b))

\* A listener that collects for the first of the trimmed revisions only
AncestryTrimmedFirst(w, c, revisions) ==
    IF revisions = {} THEN w
    ELSE [w EXCEPT !.co[c].removedRoots =
            deleteRootsLastTouchedByRevision(@,
                CHOOSE r \in revisions : \A q \in revisions : r <= q)]

\* TreeCheckout's ancestryTrimmed listener: the removed roots last touched
\* by a trimmed revision are destroyed and deleted
RECURSIVE AncestryTrimmed(_, _, _)
AncestryTrimmed(w, c, revisions) ==
    IF revisions = {} THEN w
    ELSE LET revision == CHOOSE r \in revisions : \A q \in revisions : r <= q
         IN AncestryTrimmed(
                [w EXCEPT !.co[c].removedRoots =
                    deleteRootsLastTouchedByRevision(@, revision)],
                c, revisions \ {revision})

\* The listener a branch registers with its branchTrimmer in the
\* constructor: the event is emitted again on the branch
BranchTrimmed(w, b, revisions) ==
    LET Listen(w1, c) == IF c = 0 THEN w1 ELSE AncestryTrimmed(w1, c, revisions)
    IN Listen(Record(w, "ancestryTrimmed", b, [NoEvent EXCEPT !.revisions = revisions]),
              OwnerOf(w, b))

\* branchTrimmer emits ancestryTrimmed(revisions) to the listeners in bs
RECURSIVE TrimmerEmit(_, _, _)
TrimmerEmit(w, bs, revisions) ==
    IF bs = {} THEN w
    ELSE LET b == CHOOSE x \in bs : \A y \in bs : x <= y
         IN TrimmerEmit(BranchTrimmed(w, b, revisions), bs \ {b}, revisions)

\* The branch trimmer trims the given revisions
Trim(w, revisions) ==
    TrimmerEmit(w, {b \in 1..Len(w.br) : w.br[b].subscribed}, revisions)

\* A head that a branch shares with the forks made at it
ChangeHeadShared(w, b, e, newHead, take) ==
    LET After(w1) ==
            IF w1.err # "" THEN w1
            ELSE Emit([w1 EXCEPT !.br = [x \in 1..Len(@) |->
                            IF @[x].head = w.br[b].head THEN [@[x] EXCEPT !.head = newHead]
                            ELSE @[x]]],
                      b, "afterChange", e, take)
    IN After(Emit(w, b, "beforeChange", e, take))

\* A head that is moved before beforeChange is emitted
ChangeHeadEarly(w, b, e, newHead, take) ==
    LET After(w1) ==
            IF w1.err # "" THEN w1
            ELSE Emit(w1, b, "afterChange", e, take)
    IN After(Emit([w EXCEPT !.br[b].head = newHead], b, "beforeChange", e, take))

\* A head change that goes on after a beforeChange listener has thrown
ChangeHeadRegardless(w, b, e, newHead, take) ==
    LET After(w1) ==
            Emit([w1 EXCEPT !.br[b].head = newHead], b, "afterChange", e, take)
    IN After(Emit(w, b, "beforeChange", e, take))

\* emit beforeChange; this.head = newHead; emit afterChange
ChangeHead(w, b, e, newHead, take) ==
    LET After(w1) ==
            IF w1.err # "" THEN w1
            ELSE Emit([w1 EXCEPT !.br[b].head = newHead], b, "afterChange", e, take)
    IN After(Emit(w, b, "beforeChange", e, take))

\* SharedTreeBranch.setHead(head)
BranchSetHead(w, b, head) ==
    IF w.br[b].disposed THEN Throw(w, "assert")
    ELSE [w EXCEPT !.br[b].head = head]

\* SharedTreeBranch.apply(taggedChange, kind)
BranchApply(w, b, revision, change, kind, take) ==
    LET Appended(w1, newHead) ==
            ChangeHead(w1, b,
                [NoEvent EXCEPT !.type = "append", !.kind = kind,
                    !.change = <<[revision |-> revision, change |-> change]>>,
                    !.newCommits = <<newHead>>],
                newHead, take)
    IN IF w.br[b].disposed THEN Throw(w, "assert")
       ELSE Appended(mintCommit(w, w.br[b].head, revision, change), Len(w.cs) + 1)

\* A rollback that stops at the root when no commit has the revision
BranchRollbackToRoot(w, b, newHeadRevision) ==
    LET Walked(visited, newHead, removedCommits) ==
            LET inverses == [i \in 1..Len(visited) |->
                    [revision |-> w.nr + i - 1,
                     rollbackOf |-> w.cs[visited[i]].revision,
                     change |-> Invert(w.cs[visited[i]].change)]]
                w1 == [w EXCEPT !.nr = @ + Len(visited)]
                change == IF Len(inverses) > 0
                          THEN <<[revision |-> Undefined, change |-> Compose(inverses)]>>
                          ELSE <<>>
            IN ChangeHead(w1, b,
                    [NoEvent EXCEPT !.type = "rollback", !.change = change,
                                    !.removedCommits = removedCommits],
                    IF newHead = Undefined THEN visited[Len(visited)] ELSE newHead, -1)
    IN Walked(Visited(w.cs, w.br[b].head, newHeadRevision),
              findAncestor(w.cs, w.br[b].head, newHeadRevision),
              AncestorPath(w.cs, w.br[b].head, newHeadRevision))

\* SharedTreeBranch.rollback(newHeadRevision)
BranchRollback(w, b, newHeadRevision) ==
    LET \* the predicate mints a revision and pushes an inverse for every
        \* commit it is evaluated on
        Walked(visited, newHead, removedCommits) ==
            LET inverses == [i \in 1..Len(visited) |->
                    [revision |-> w.nr + i - 1,
                     rollbackOf |-> w.cs[visited[i]].revision,
                     change |-> Invert(w.cs[visited[i]].change)]]
                w1 == [w EXCEPT !.nr = @ + Len(visited)]
                change == IF Len(inverses) > 0
                          THEN <<[revision |-> Undefined, change |-> Compose(inverses)]>>
                          ELSE <<>>
            IN IF newHead = Undefined THEN Throw(w1, "assert")
               ELSE ChangeHead(w1, b,
                        [NoEvent EXCEPT !.type = "rollback", !.change = change,
                                        !.removedCommits = removedCommits],
                        newHead, -1)
    IN Walked(Visited(w.cs, w.br[b].head, newHeadRevision),
              findAncestor(w.cs, w.br[b].head, newHeadRevision),
              AncestorPath(w.cs, w.br[b].head, newHeadRevision))

\* ---------------------------------------------- rebase algorithm (§4.3)
Max(S) == CHOOSE x \in S : \A y \in S : y <= x

\* The deepest commit that is on both ancestries (Undefined when unrelated)
CommonAncestor(cs, a, b) ==
    LET A == Ancestry(cs, a)
        I == {i \in 1..Len(A) : A[i] \in Range(Ancestry(cs, b))}
    IN IF I = {} THEN Undefined ELSE A[Max(I)]

\* The commits after `anc` up to `head`, oldest first
PathAfter(cs, anc, head) ==
    LET A == Ancestry(cs, head)
        I == {i \in 1..Len(A) : A[i] = anc}
    IN IF I = {} THEN A ELSE SubSeq(A, Max(I) + 1, Len(A))

Position(s, x) ==
    IF \E i \in 1..Len(s) : s[i] = x THEN CHOOSE i \in 1..Len(s) : s[i] = x ELSE 0

\* Step 3: the source commits, oldest first, each rebased over the
\* composition of the target-side changes and minted on top of the last.
RECURSIVE RebasedHeap(_, _, _, _)
RebasedHeap(cs, parent, sourcePath, over) ==
    IF sourcePath = <<>> THEN cs
    ELSE LET c == cs[Head(sourcePath)]
             cs1 == Append(cs, [parent |-> parent, revision |-> c.revision,
                                change |-> Rebase(c.change, over)])
         IN RebasedHeap(cs1, Len(cs1), Tail(sourcePath), over)

\* The commits of `path` whose revision is not in `revs`
RECURSIVE Fresh(_, _, _)
Fresh(cs, path, revs) ==
    IF path = <<>> THEN <<>>
    ELSE IF cs[Head(path)].revision \notin revs
         THEN <<Head(path)>> \o Fresh(cs, Tail(path), revs)
         ELSE Fresh(cs, Tail(path), revs)

\* rebaseBranch(mintRevisionTag, rebaser, sourceHead, targetCommit, targetHead)
\* A source commit whose revision is already among the rebased-over target
\* commits is on the target already (revisions identify commits, §3) and is
\* dropped (step 4); the others are rebased and minted anew with their
\* revision.
rebaseBranch(cs, sourceHead, upTo, targetHead) ==
    LET Revs(path) == {cs[path[i]].revision : i \in 1..Len(path)}
        Result(sourcePath, targetCommits, sourceCommits, cs1) ==
            IF targetCommits = <<>>
            THEN \* nothing of the target to rebase over
                 [cs |-> cs, newSourceHead |-> sourceHead, sourceChange |-> <<>>,
                  deletedSourceCommits |-> <<>>, targetCommits |-> <<>>,
                  sourceCommits |-> sourcePath]
            ELSE [cs |-> cs1,
                  newSourceHead |-> IF sourceCommits = <<>> THEN upTo ELSE Len(cs1),
                  sourceChange |-> <<Compose(
                     [i \in 1..Len(sourcePath) |->
                        [change |-> Invert(cs[sourcePath[Len(sourcePath) + 1 - i]].change)]]
                     \o [i \in 1..Len(targetCommits) |-> cs1[targetCommits[i]]]
                     \o [i \in 1..Len(sourceCommits) |-> cs1[sourceCommits[i]]])>>,
                  deletedSourceCommits |-> sourcePath,
                  targetCommits |-> targetCommits,
                  sourceCommits |-> sourceCommits]
        Over(sourcePath, targetCommits, toRebase) ==
            Result(sourcePath, targetCommits,
                   [i \in 1..Len(toRebase) |-> Len(cs) + i],
                   RebasedHeap(cs, upTo, toRebase,
                        Compose([i \in 1..Len(targetCommits) |-> cs[targetCommits[i]]])))
        Select(sourcePath, targetCommits) ==
            Over(sourcePath, targetCommits, Fresh(cs, sourcePath, Revs(targetCommits)))
        Paths(sourcePath, targetPath) ==
            Select(sourcePath, SubSeq(targetPath, 1, Position(targetPath, upTo)))
        From(ancestor) ==
            Paths(PathAfter(cs, ancestor, sourceHead), PathAfter(cs, ancestor, targetHead))
    IN From(CommonAncestor(cs, sourceHead, targetHead))

Returns(w, val, targetCommits) ==
    [w EXCEPT !.res = [val |-> val, targetCommits |-> targetCommits]]

\* A rebaseOnto whose event leaves the rebased-over commits out of newCommits
BranchRebaseOntoSourceOnly(w, b, onto, upTo, take) ==
    LET Rebased(r) ==
            IF w.br[b].head = upTo THEN Returns(w, "undefined", <<>>)
            ELSE IF w.br[b].head = r.newSourceHead THEN Returns(w, "undefined", <<>>)
            ELSE Returns(ChangeHead([w EXCEPT !.cs = r.cs], b,
                            [NoEvent EXCEPT !.type = "rebase",
                                !.change = IF r.sourceChange = <<>> THEN <<>>
                                           ELSE <<[revision |-> Undefined,
                                                   change |-> r.sourceChange[1]]>>,
                                !.removedCommits = r.deletedSourceCommits,
                                !.newCommits = r.sourceCommits],
                            r.newSourceHead, take),
                         "result", r.targetCommits)
    IN IF w.br[b].disposed THEN Throw(w, "assert")
       ELSE Rebased(rebaseBranch(w.cs, w.br[b].head, upTo, w.br[onto].head))

\* A rebaseOnto that changes the head and emits whatever the rebase found
BranchRebaseOntoAlways(w, b, onto, upTo, take) ==
    LET Rebased(r) ==
            Returns(ChangeHead([w EXCEPT !.cs = r.cs], b,
                        [NoEvent EXCEPT !.type = "rebase",
                            !.change = IF r.sourceChange = <<>> THEN <<>>
                                       ELSE <<[revision |-> Undefined,
                                               change |-> r.sourceChange[1]]>>,
                            !.removedCommits = r.deletedSourceCommits,
                            !.newCommits = r.targetCommits \o r.sourceCommits],
                        r.newSourceHead, take),
                    "result", r.targetCommits)
    IN IF w.br[b].disposed THEN Throw(w, "assert")
       ELSE Rebased(rebaseBranch(w.cs, w.br[b].head, upTo, w.br[onto].head))

\* SharedTreeBranch.rebaseOnto(branch, upTo), with the private rebaseBranch
BranchRebaseOnto(w, b, onto, upTo, take) ==
    LET Rebased(r) ==
            IF w.br[b].head = upTo THEN Returns(w, "undefined", <<>>)
            ELSE IF w.br[b].head = r.newSourceHead THEN Returns(w, "undefined", <<>>)
            ELSE Returns(ChangeHead([w EXCEPT !.cs = r.cs], b,
                            [NoEvent EXCEPT !.type = "rebase",
                                !.change = IF r.sourceChange = <<>> THEN <<>>
                                           ELSE <<[revision |-> Undefined,
                                                   change |-> r.sourceChange[1]]>>,
                                !.removedCommits = r.deletedSourceCommits,
                                !.newCommits = r.targetCommits \o r.sourceCommits],
                            r.newSourceHead, take),
                         "result", r.targetCommits)
    IN IF w.br[b].disposed THEN Throw(w, "assert")
       ELSE Rebased(rebaseBranch(w.cs, w.br[b].head, upTo, w.br[onto].head))

\* A merge that rebases this branch over the given one
BranchMergeUnder(w, b, other, take) ==
    LET Rebased(r) ==
            IF w.br[b].head = w.br[other].head THEN Returns(w, "undefined", <<>>)
            ELSE Returns(ChangeHead([w EXCEPT !.cs = r.cs], b,
                            [NoEvent EXCEPT !.type = "append", !.kind = "Default",
                                !.change = <<[revision |-> Undefined,
                                    change |-> Compose([i \in 1..Len(r.sourceCommits) |->
                                                    r.cs[r.sourceCommits[i]]])]>>,
                                !.newCommits = r.sourceCommits],
                            r.newSourceHead, take),
                         "result", <<>>)
    IN IF w.br[b].disposed \/ w.br[other].disposed THEN Throw(w, "assert")
       ELSE IF other = b THEN Returns(w, "undefined", <<>>)
       ELSE Rebased(rebaseBranch(w.cs, w.br[b].head, w.br[other].head, w.br[other].head))

\* A merge that does not compare its head with the head of the rebased branch
BranchMergeAlways(w, b, other, take) ==
    LET Rebased(r) ==
            IF w.br[other].head = w.br[b].head THEN Returns(w, "undefined", <<>>)
            ELSE Returns(ChangeHead([w EXCEPT !.cs = r.cs], b,
                            [NoEvent EXCEPT !.type = "append", !.kind = "Default",
                                !.change = <<[revision |-> Undefined,
                                    change |-> Compose([i \in 1..Len(r.sourceCommits) |->
                                                    r.cs[r.sourceCommits[i]]])]>>,
                                !.newCommits = r.sourceCommits],
                            r.newSourceHead, take),
                         "result", <<>>)
    IN IF w.br[b].disposed \/ w.br[other].disposed THEN Throw(w, "assert")
       ELSE IF other = b THEN Returns(w, "undefined", <<>>)
       ELSE Rebased(rebaseBranch(w.cs, w.br[other].head, w.br[b].head, w.br[b].head))

\* SharedTreeBranch.merge(branch), with the private rebaseBranch
BranchMerge(w, b, other, take) ==
    LET Rebased(r) ==
            IF w.br[other].head = w.br[b].head THEN Returns(w, "undefined", <<>>)
            ELSE IF w.br[b].head = r.newSourceHead THEN Returns(w, "undefined", <<>>)
            ELSE Returns(ChangeHead([w EXCEPT !.cs = r.cs], b,
                            [NoEvent EXCEPT !.type = "append", !.kind = "Default",
                                !.change = <<[revision |-> Undefined,
                                    change |-> Compose([i \in 1..Len(r.sourceCommits) |->
                                                    r.cs[r.sourceCommits[i]]])]>>,
                                !.newCommits = r.sourceCommits],
                            r.newSourceHead, take),
                         "result", <<>>)
    IN IF w.br[b].disposed \/ w.br[other].disposed THEN Throw(w, "assert")
       ELSE IF other = b THEN Returns(w, "undefined", <<>>)
       ELSE Rebased(rebaseBranch(w.cs, w.br[other].head, w.br[b].head, w.br[b].head))

\* ----------------------------------------------------- TransactionStack
\* push(startRevision, onPop)
TransactionPush(w, c, startRevision) ==
    [w EXCEPT !.co[c].transactions = Append(@,
        [startRevision |-> startRevision,
         watched |-> {w.co[c].branch}, forks |-> {}])]

RECURSIVE DisposeBranches(_, _)
DisposeBranches(w, bs) ==
    IF bs = {} THEN w
    ELSE LET b == CHOOSE x \in bs : \A y \in bs : x <= y
         IN DisposeBranches(BranchDispose(w, b), bs \ {b})

\* A startTransaction that listens to no fork
startTransactionDeaf(w, c) ==
    IF w.co[c].disposed THEN Throw(w, "assert")
    ELSE [w EXCEPT
            !.co[c].transactions = Append(@,
                [startRevision |-> w.cs[w.br[w.co[c].branch].head].revision,
                 watched |-> {}, forks |-> {}]),
            !.co[c].editorDepth = @ + 1,
            !.co[c].removedRootsSnapshots = Append(@, w.co[c].removedRoots)]

\* pop(): fails when no transaction is in progress; otherwise removes the
\* top frame and runs the function given to push, which disposes the forks
\* made during the transaction and unsubscribes.
TransactionPop(w, c) ==
    IF Len(w.co[c].transactions) = 0 THEN Throw(w, "assert")
    ELSE DisposeBranches([w EXCEPT !.co[c].transactions = Front(@)],
                         Last(w.co[c].transactions).forks)

\* ---------------------------------------------------------- TreeCheckout
\* _branch.editor.enterTransaction() and exitTransaction(): the editor counts
\* the transactions it is in
enterTransaction(w, c) == [w EXCEPT !.co[c].editorDepth = @ + 1]
exitTransaction(w, c) == [w EXCEPT !.co[c].editorDepth = @ - 1]

MapHas(m, k) == \E p \in m : p[1] = k
MapGet(m, k) == (CHOOSE p \in m : p[1] = k)[2]
MapSet(m, k, v) == {p \in m : p[1] # k} \cup {<<k, v>>}

\* while (map.has(startRevision)) startRevision = map.get(startRevision)
RECURSIVE FollowRebased(_, _)
FollowRebased(m, r) == IF MapHas(m, r) THEN FollowRebased(m, MapGet(m, r)) ELSE r

\* TreeCheckout.startTransaction
startTransaction(w, c) ==
    IF w.co[c].disposed THEN Throw(w, "assert")
    ELSE [enterTransaction(
            TransactionPush(w, c, w.cs[w.br[w.co[c].branch].head].revision), c) EXCEPT
            !.co[c].removedRootsSnapshots = Append(@, w.co[c].removedRoots)]

\* A popTransaction that tolerates an empty transaction stack
popTransactionLenient(w, c) ==
    [w |-> [TransactionPop(w, c) EXCEPT !.err = ""],
     startCommit |-> w.br[w.co[c].branch].head, commits |-> <<>>]

\* TreeCheckout.popTransaction: [w, startCommit, commits]
popTransaction(w, c) ==
    LET Popped(w1, startRevision) ==
            LET w2 == IF ~isTransacting(w1, c)
                      THEN [w1 EXCEPT !.co[c].initialTransactionRevToRebasedRev = {}]
                      ELSE w1
                head == w1.br[w1.co[c].branch].head
                startCommit == findAncestor(w1.cs, head, startRevision)
            IN IF w1.err # "" THEN [w |-> w1, startCommit |-> Undefined, commits |-> <<>>]
               ELSE [w |-> IF startCommit = Undefined THEN Throw(w2, "assert") ELSE w2,
                     startCommit |-> startCommit,
                     commits |-> AncestorPath(w1.cs, head, startRevision)]
    IN Popped(TransactionPop(w, c),
              IF isTransacting(w, c)
              THEN FollowRebased(w.co[c].initialTransactionRevToRebasedRev,
                                 Last(w.co[c].transactions).startRevision)
              ELSE Undefined)

\* TreeCheckout.onRollbackTransaction
onRollbackTransaction(w, c) ==
    IF w.co[c].removedRootsSnapshots = <<>> THEN Throw(w, "assert")
    ELSE [w EXCEPT !.co[c].removedRoots = Last(w.co[c].removedRootsSnapshots),
                   !.co[c].removedRootsSnapshots = Front(@)]

\* for (step of removedCommits) removedRoots.updateMajor(step.revision, revision)
RECURSIVE UpdateMajors(_, _, _)
UpdateMajors(roots, revisions, updated) ==
    IF revisions = <<>> THEN roots
    ELSE UpdateMajors(updateMajor(roots, Head(revisions), updated),
                      Tail(revisions), updated)

\* A commitTransaction that squashes whatever the number of commits
commitTransactionAlways(w, c, take) ==
    LET b == w.co[c].branch
        Updated(p, w2, transactionRevision) ==
            IF w2.err # "" THEN w2
            ELSE [exitTransaction(w2, c) EXCEPT !.co[c].removedRoots =
                    UpdateMajors(@, Revisions(p.w.cs, p.commits), transactionRevision)]
        Squash(p, w1) ==
            IF w1.err # "" THEN w1
            ELSE Updated(p,
                    BranchApply([w1 EXCEPT !.nr = @ + 1], b, w1.nr,
                        Compose([i \in 1..Len(p.commits) |-> p.w.cs[p.commits[i]]]),
                        "Default", take),
                    w1.nr)
        Popped(p) ==
            IF p.w.err # "" THEN p.w
            ELSE Squash(p, BranchRollback(
                    [p.w EXCEPT !.co[c].removedRootsSnapshots = Front(@)],
                    b, p.w.cs[p.startCommit].revision))
    IN IF w.co[c].disposed THEN Throw(w, "assert")
       ELSE Popped(popTransaction(w, c))

\* A commitTransaction that composes the squash newest commit first
commitTransactionNewestFirst(w, c, take) ==
    LET b == w.co[c].branch
        Updated(p, w2, transactionRevision) ==
            IF w2.err # "" THEN w2
            ELSE [exitTransaction(w2, c) EXCEPT !.co[c].removedRoots =
                    UpdateMajors(@, Revisions(p.w.cs, p.commits), transactionRevision)]
        Squash(p, w1) ==
            IF w1.err # "" THEN w1
            ELSE Updated(p,
                    BranchApply([w1 EXCEPT !.nr = @ + 1], b, w1.nr,
                        Compose(Reverse([i \in 1..Len(p.commits) |-> p.w.cs[p.commits[i]]])),
                        "Default", take),
                    w1.nr)
        Snapshot(p, w0) ==
            IF p.commits = <<>> THEN w0
            ELSE Squash(p, BranchRollback(w0, b, p.w.cs[p.startCommit].revision))
        Popped(p) ==
            IF p.w.err # "" THEN p.w
            ELSE Snapshot(p, [p.w EXCEPT !.co[c].removedRootsSnapshots = Front(@)])
    IN IF w.co[c].disposed THEN Throw(w, "assert")
       ELSE Popped(popTransaction(w, c))

\* TreeCheckout.commitTransaction
commitTransaction(w, c, take) ==
    LET b == w.co[c].branch
        Updated(p, w2, transactionRevision) ==
            IF w2.err # "" THEN w2
            ELSE [exitTransaction(w2, c) EXCEPT !.co[c].removedRoots =
                    UpdateMajors(@, Revisions(p.w.cs, p.commits), transactionRevision)]
        Squash(p, w1) ==
            IF w1.err # "" THEN w1
            ELSE Updated(p,
                    BranchApply([w1 EXCEPT !.nr = @ + 1], b, w1.nr,
                        Compose([i \in 1..Len(p.commits) |-> p.w.cs[p.commits[i]]]),
                        "Default", take),
                    w1.nr)
        Snapshot(p, w0) ==
            IF p.commits = <<>> THEN w0
            ELSE Squash(p, BranchRollback(w0, b, p.w.cs[p.startCommit].revision))
        Popped(p) ==
            IF p.w.err # "" THEN p.w
            ELSE Snapshot(p, [p.w EXCEPT !.co[c].removedRootsSnapshots = Front(@)])
    IN IF w.co[c].disposed THEN Throw(w, "assert")
       ELSE Popped(popTransaction(w, c))

\* An abortTransaction that pops the transaction and rolls nothing back
abortTransactionKeep(w, c) ==
    LET Popped(p) ==
            IF p.w.err # "" THEN p.w
            ELSE onRollbackTransaction(exitTransaction(p.w, c), c)
    IN IF w.co[c].disposed THEN Throw(w, "assert")
       ELSE Popped(popTransaction(w, c))

\* TreeCheckout.abortTransaction
abortTransaction(w, c) ==
    LET RolledBack(w1) == IF w1.err # "" THEN w1 ELSE onRollbackTransaction(w1, c)
        Popped(p) ==
            IF p.w.err # "" THEN p.w
            ELSE IF p.commits = <<>>
            THEN onRollbackTransaction(exitTransaction(p.w, c), c)
            ELSE RolledBack(BranchRollback(exitTransaction(p.w, c), w.co[c].branch,
                                           p.w.cs[p.startCommit].revision))
    IN IF w.co[c].disposed THEN Throw(w, "assert")
       ELSE Popped(popTransaction(w, c))

\* An edit through TreeCheckout.editor: the editor mints a revision for the
\* change and hands it to branch.apply.
Edit(w, c, schema, take) ==
    IF w.co[c].disposed THEN Throw(w, "assert")
    ELSE BranchApply([w EXCEPT !.nr = @ + 1], w.co[c].branch, w.nr,
                     EditChange(w.nr, schema), "Default", take)

\* The body of a transaction: n edits of the data
RECURSIVE Body(_, _, _)
Body(w, c, n) ==
    IF n = 0 \/ w.err # "" THEN w
    ELSE Body(Edit(w, c, FALSE, -1), c, n - 1)

\* runTransaction(checkout, transaction) of treeApi.ts; the body makes n
\* edits and then throws, returns "rollback" or returns nothing
runTransaction(w, c, n, result) ==
    LET Rethrown(w2) == IF w2.err # "" THEN w2 ELSE Throw(w2, "Error")
        Ran(w1) ==
            IF w1.err # "" THEN w1
            ELSE IF result = "throw" THEN Rethrown(abortTransaction(w1, c))
            ELSE IF result = "rollback" THEN abortTransaction(w1, c)
            ELSE commitTransaction(w1, c, -1)
        Started(w0) == IF w0.err # "" THEN w0 ELSE Ran(Body(w0, c, n))
    IN Started(startTransaction(w, c))

\* runSynchronous(view, transaction) of treeCheckout.ts; the transaction
\* function makes n edits and then throws, returns Abort or returns nothing
runSynchronous(w, c, n, result) ==
    LET Ran(w1) ==
            IF w1.err # "" THEN w1
            ELSE IF result = "throw" THEN Throw(w1, "Error")
            ELSE IF result = "abort" THEN abortTransaction(w1, c)
            ELSE commitTransaction(w1, c, -1)
        Started(w0) == IF w0.err # "" THEN w0 ELSE Ran(Body(w0, c, n))
    IN Started(startTransaction(w, c))

NewCheckout(branch, isBranch, forest, removedRoots) ==
    [branch |-> branch, isBranch |-> isBranch, disposed |-> FALSE,
     transactions |-> <<>>, initialTransactionRevToRebasedRev |-> {},
     revertibleCommitBranches |-> {}, revertibles |-> {}, forest |-> forest,
     removedRoots |-> removedRoots, removedRootsSnapshots |-> <<>>,
     editorDepth |-> 0]

\* TreeCheckout.branch
branch(w, c) ==
    LET Forked(w1) ==
            IF w1.err # "" THEN w1
            ELSE [w1 EXCEPT !.co = Append(@,
                    NewCheckout(Len(w.br) + 1, TRUE, w.co[c].forest,
                                w.co[c].removedRoots))]
    IN IF w.co[c].disposed THEN Throw(w, "UsageError")
       ELSE Forked(BranchFork(w, w.co[c].branch, w.br[w.co[c].branch].head))

\* TreeCheckout.rebase(checkout): rebase `src` onto this checkout `c`
rebase(w, c, src) ==
    LET Rebased(w1) ==
            LET targetCommits == w1.res.targetCommits
                from == w1.cs[Head(targetCommits)].parent
                dst == w1.cs[Last(targetCommits)].revision
            IN IF w1.err # "" \/ w1.res.val = "undefined" THEN w1
               ELSE IF isTransacting(w1, c) /\ from # Undefined
               THEN [w1 EXCEPT !.co[c].initialTransactionRevToRebasedRev =
                                   MapSet(@, w1.cs[from].revision, dst)]
               ELSE w1
    IN IF w.co[c].disposed \/ w.co[src].disposed THEN Throw(w, "UsageError")
       ELSE IF isTransacting(w, src) \/ ~w.co[src].isBranch THEN Throw(w, "assert")
       ELSE Rebased(BranchRebaseOnto(w, w.co[src].branch, w.co[c].branch,
                                     w.br[w.co[c].branch].head, -1))

\* A disposeRevertible that forgets the pinned branch without disposing it
disposeRevertibleForget(w, c, revision) ==
    [w EXCEPT !.co[c].revertibleCommitBranches = {p \in @ : p.revision # revision},
              !.co[c].revertibles = {h \in @ : h.revision # revision}]

\* TreeCheckout.disposeRevertible
disposeRevertible(w, c, revision) ==
    LET m == w.co[c].revertibleCommitBranches
        Deleted(w1) ==
            [w1 EXCEPT !.co[c].revertibleCommitBranches = {p \in @ : p.revision # revision},
                       !.co[c].revertibles = {h \in @ : h.revision # revision}]
    IN Deleted(IF \E p \in m : p.revision = revision
               THEN BranchDispose(w, (CHOOSE p \in m : p.revision = revision).branch)
               ELSE w)

\* revertible.status
Status(w, c, revision) ==
    IF \E p \in w.co[c].revertibleCommitBranches : p.revision = revision
    THEN "Valid" ELSE "Disposed"

\* revertible.dispose
RevertibleDispose(w, c, revision) ==
    IF Status(w, c, revision) = "Disposed" THEN Throw(w, "UsageError")
    ELSE disposeRevertible(w, c, revision)

\* TreeCheckout.purgeRevertibles
RECURSIVE purgeRevertibles(_, _)
purgeRevertibles(w, c) ==
    IF w.co[c].revertibles = {} \/ w.err # "" THEN w
    ELSE LET h == CHOOSE x \in w.co[c].revertibles :
                    \A y \in w.co[c].revertibles : x.revision <= y.revision
         IN purgeRevertibles(RevertibleDispose(w, c, h.revision), c)

\* TreeCheckout[disposeSymbol]
dispose(w, c) ==
    LET Purged(w3) ==
            IF w3.err # "" THEN w3 ELSE BranchDispose(w3, w.co[c].branch)
        \* while (isTransacting()) abortTransaction()
        Aborted(w2) ==
            IF w2.err # "" THEN w2 ELSE Purged(purgeRevertibles(w2, c))
        Marked(w1) ==
            Aborted(IF isTransacting(w1, c) THEN abortTransaction(w1, c) ELSE w1)
    IN IF w.co[c].disposed THEN Throw(w, "UsageError")
       ELSE Marked([w EXCEPT !.co[c].disposed = TRUE])

\* A merge that does not look at the transactions of its target
mergeInTransaction(w, c, src, disposeMerged, take) ==
    LET Merged(w1) ==
            IF w1.err # "" THEN w1
            ELSE IF disposeMerged /\ w.co[src].isBranch THEN dispose(w1, src)
            ELSE w1
    IN IF w.co[c].disposed \/ w.co[src].disposed THEN Throw(w, "UsageError")
       ELSE IF isTransacting(w, src) THEN Throw(w, "assert")
       ELSE Merged(BranchMerge(w, w.co[c].branch, w.co[src].branch, take))

\* TreeCheckout.merge(checkout, disposeMerged): merge `src` into `c`
merge(w, c, src, disposeMerged, take) ==
    LET Merged(w1) ==
            IF w1.err # "" THEN w1
            ELSE IF disposeMerged /\ w.co[src].isBranch THEN dispose(w1, src)
            ELSE w1
    IN IF w.co[c].disposed \/ w.co[src].disposed THEN Throw(w, "UsageError")
       ELSE IF isTransacting(w, c) \/ isTransacting(w, src) THEN Throw(w, "assert")
       ELSE Merged(BranchMerge(w, w.co[c].branch, w.co[src].branch, take))

\* rebaseChange(rebaser, change, sourceHead, targetHead, mintRevisionTag):
\* the change carried from sourceHead to targetHead
rebaseChange(cs, change, sourceHead, targetHead) ==
    LET Over(sourcePath, targetPath) ==
            Rebase(change,
                Compose([i \in 1..Len(sourcePath) |->
                            [change |-> Invert(cs[sourcePath[Len(sourcePath) + 1 - i]].change)]]
                        \o [i \in 1..Len(targetPath) |-> cs[targetPath[i]]]))
        From(ancestor) ==
            Over(PathAfter(cs, ancestor, sourceHead), PathAfter(cs, ancestor, targetHead))
    IN From(CommonAncestor(cs, sourceHead, targetHead))

\* A revert that is always an undo
RevertKindUndo(kind) == "Undo"

\* The kind of the commit that reverts a commit of the given kind
RevertKind(kind) ==
    IF kind = "Default" \/ kind = "Redo" THEN "Undo" ELSE "Redo"

\* A revertRevertible that also reverts during a transaction
revertRevertibleAnytime(w, c, revision, kind, take) ==
    LET headCommit == w.br[w.co[c].branch].head
        Inverted(commitToRevert, inverse) ==
            BranchApply([w EXCEPT !.nr = @ + 1], w.co[c].branch, w.nr,
                IF commitToRevert # headCommit
                THEN rebaseChange(w.cs, inverse, commitToRevert, headCommit)
                ELSE inverse,
                RevertKind(kind),
                take)
        Found(commitToRevert) ==
            Inverted(commitToRevert, Invert(w.cs[commitToRevert].change))
    IN IF Status(w, c, revision) = "Disposed" THEN Throw(w, "assert")
       ELSE Found(w.br[(CHOOSE p \in w.co[c].revertibleCommitBranches :
                            p.revision = revision).branch].head)

\* TreeCheckout.revertRevertible(revision, kind)
revertRevertible(w, c, revision, kind, take) ==
    LET headCommit == w.br[w.co[c].branch].head
        \* the walk from headCommit to the reverted commit that counts the age
        Applied(w1) ==
            IF w1.err # "" THEN w1
            ELSE IF findAncestor(w.cs, headCommit, revision) = Undefined
            THEN Throw(w1, "assert")
            ELSE w1
        Inverted(commitToRevert, inverse) ==
            Applied(BranchApply([w EXCEPT !.nr = @ + 1], w.co[c].branch, w.nr,
                IF commitToRevert # headCommit
                THEN rebaseChange(w.cs, inverse, commitToRevert, headCommit)
                ELSE inverse,
                RevertKind(kind),
                take))
        Found(commitToRevert) ==
            Inverted(commitToRevert, Invert(w.cs[commitToRevert].change))
    IN IF isTransacting(w, c) THEN Throw(w, "UsageError")
       ELSE IF Status(w, c, revision) = "Disposed" THEN Throw(w, "assert")
       ELSE Found(w.br[(CHOOSE p \in w.co[c].revertibleCommitBranches :
                            p.revision = revision).branch].head)

\* A revert that never releases the revertible
RevertibleRevertKeep(w, c, revision, kind, release, take) ==
    IF Status(w, c, revision) = "Disposed" THEN Throw(w, "UsageError")
    ELSE revertRevertible(w, c, revision, kind, take)

\* revertible.revert(release)
RevertibleRevert(w, c, revision, kind, release, take) ==
    LET Reverted(w1) ==
            IF w1.err # "" THEN w1
            ELSE IF release THEN RevertibleDispose(w1, c, revision)
            ELSE w1
    IN IF Status(w, c, revision) = "Disposed" THEN Throw(w, "UsageError")
       ELSE Reverted(revertRevertible(w, c, revision, kind, take))

\* ------------------------------------------- RemoteMessageProcessor
\* (opLifecycle/remoteMessageProcessor.ts).  The inbound messages are
\* neither chunked nor compressed.  A message is
\* [clientId, clientSequenceNumber, metadata: [batch, batchId], type, contents];
\* the batch flag of the metadata is "true", "false" or "undefined".
Clients == {"A", "B"}
InnerTypes == {"component", "attach"}

\* unpack(message): the type and the contents of the packed contents move
\* one level up
unpack(message) ==
    [message EXCEPT !.type = message.contents.type,
                    !.contents = message.contents.contents]

\* unpackRuntimeMessage(message, logLegacyCase)
unpackRuntimeMessage(message) ==
    IF message.type # "op" THEN message ELSE unpack(message)

isGroupedBatch(message) ==
    message.type = "op" /\ message.contents.type = "groupedBatch"

\* opGroupingManager.ungroupOp(message).map(unpack)
ungroupOp(message) ==
    [i \in 1..Len(message.contents.contents) |->
        unpack([message EXCEPT !.clientSequenceNumber = i,
                               !.contents = message.contents.contents[i].contents,
                               !.metadata = message.contents.contents[i].metadata])]

\* The record kept in batchInProgress for a batch that `message` starts
BatchStarted(message) ==
    <<[messages |-> <<message>>,
       batchId |-> message.metadata.batchId,
       clientId |-> message.clientId,
       batchStartCsn |-> message.clientSequenceNumber,
       keyMessage |-> message]>>

\* An addMessageToBatch that ends the batch at every message without a flag
addMessageToBatchEager(batch, message) ==
    LET flag == message.metadata.batch
    IN IF batch = <<>>
       THEN IF flag = "false" THEN [batch |-> batch, batchEnded |-> FALSE, err |-> "assert"]
            ELSE [batch |-> BatchStarted(message), batchEnded |-> flag # "true", err |-> ""]
       ELSE IF flag = "true" THEN [batch |-> batch, batchEnded |-> FALSE, err |-> "assert"]
       ELSE [batch |-> <<[batch[1] EXCEPT !.messages = Append(@, message)]>>,
             batchEnded |-> flag # "true", err |-> ""]

\* RemoteMessageProcessor.addMessageToBatch(message)
addMessageToBatch(batch, message) ==
    LET flag == message.metadata.batch
    IN IF batch = <<>>
       THEN IF flag = "false" THEN [batch |-> batch, batchEnded |-> FALSE, err |-> "assert"]
            ELSE [batch |-> BatchStarted(message), batchEnded |-> flag # "true", err |-> ""]
       ELSE IF flag = "true" THEN [batch |-> batch, batchEnded |-> FALSE, err |-> "assert"]
       ELSE [batch |-> <<[batch[1] EXCEPT !.messages = Append(@, message)]>>,
             batchEnded |-> flag = "false", err |-> ""]

\* RemoteMessageProcessor.process(remoteMessageCopy, logLegacyCase):
\* [batch: the batchInProgress it leaves, result: <<>> for undefined or the
\* one InboundMessageResult, err]
process(batch, message) ==
    LET Failed == [batch |-> batch, result |-> <<>>, err |-> "assert"]
        Grouped(groupedMessages) ==
            [batch |-> batch,
             result |-> <<[type |-> "fullBatch",
                           messages |-> groupedMessages,
                           batchStart |-> [
                                batchStartCsn |-> message.clientSequenceNumber,
                                clientId |-> message.clientId,
                                batchId |-> message.metadata.batchId,
                                keyMessage |-> IF groupedMessages = <<>> THEN message
                                               ELSE groupedMessages[1]],
                           length |-> Len(groupedMessages)]>>,
             err |-> ""]
        Added(a) ==
            IF a.err # "" THEN Failed
            ELSE IF ~a.batchEnded THEN [batch |-> a.batch, result |-> <<>>, err |-> ""]
            ELSE [batch |-> <<>>,
                  result |-> <<[type |-> "fullBatch",
                                messages |-> a.batch[1].messages,
                                batchStart |-> [
                                    batchStartCsn |-> a.batch[1].batchStartCsn,
                                    clientId |-> a.batch[1].clientId,
                                    batchId |-> a.batch[1].batchId,
                                    keyMessage |-> a.batch[1].keyMessage],
                                length |-> Len(a.batch[1].messages)]>>,
                  err |-> ""]
    IN IF message.clientId = "" THEN Failed
       ELSE IF isGroupedBatch(message)
       THEN IF batch # <<>> THEN Failed ELSE Grouped(ungroupOp(message))
       ELSE Added(addMessageToBatch(batch, unpackRuntimeMessage(message)))

\* ------------------------------------------------------ AnchorTreeIndex
\* (feature-libraries/indexing/anchorTreeIndex.ts).  Anchor nodes are
\* numbered in the order in which indexField meets them.
Keys == {"k1", "k2"}

\* filterNodes(anchorNodes, n => n !== anchorNode): undefined (<<>>) when
\* nothing is left
filterNodes(nodes, anchorNode) == SelectSeq(nodes, LAMBDA n : n # anchorNode)

\* indexField on one node whose key finder returns `key`: ix is
\* [nodes, anchors, listeners]
indexNode(ix, key) ==
    LET anchorNode == Len(ix.listeners) + 1
    IN [nodes |-> [ix.nodes EXCEPT ![key] = Append(@, anchorNode)],
        anchors |-> ix.anchors \cup {anchorNode},
        listeners |-> Append(ix.listeners,
                        [key |-> key, nodes |-> ix.nodes[key], destroyed |-> FALSE]),
        err |-> ""]

\* The afterDestroy listener that indexField registers on the anchor node:
\* `key` and `nodes` are the ones of its closure
afterDestroy(ix, anchorNode) ==
    LET key == ix.listeners[anchorNode].key
        nodes == ix.listeners[anchorNode].nodes
        ns == ix.nodes[key]
    IN IF ns = <<>> \/ anchorNode \notin Range(ns) THEN [ix EXCEPT !.err = "assert"]
       ELSE [ix EXCEPT !.nodes[key] = filterNodes(nodes, anchorNode),
                       !.anchors = @ \ {anchorNode},
                       !.err = IF anchorNode \in ix.anchors THEN "" ELSE "assert"]

\* ------------------------------------------------------------ the machine
NoFrame == [head0 |-> 0, forest0 |-> <<>>, edits |-> <<>>, clean |-> TRUE,
            branches0 |-> 0]

\* The world w stays within n commit objects, n branches and 2n revisions
Fits(w, n) ==
    /\ Len(w.cs) <= n
    /\ w.nr <= 2 * n
    /\ Len(w.br) <= n

\* The state after a call that ran from World to w
Becomes(w, n) ==
    /\ Fits(w, n)
    /\ commits' = w.cs
    /\ nextRev' = w.nr
    /\ branches' = w.br
    /\ checkouts' = w.co
    /\ factories' = w.fa
    /\ handles' = w.hs
    /\ UNCHANGED <<processor, index>>

Checkouts == 1..Len(checkouts)
HeadOf(c) == branches[checkouts[c].branch].head
TopFrame(c) == IF txg[c] = <<>> THEN NoFrame ELSE Last(txg[c])
Listeners == -1..2

Init ==
    /\ commits = <<[parent |-> Undefined, revision |-> RootRevision, change |-> <<>>]>>
    /\ nextRev = RootRevision + 1
    /\ branches = <<[head |-> 1, disposed |-> FALSE, subscribed |-> TRUE,
                     origin |-> 0]>>
    /\ checkouts = <<NewCheckout(1, FALSE, <<>>, {})>>
    /\ factories = {}
    /\ handles = {}
    /\ txg = << <<>> >>
    /\ batchInProgress = <<>>
    /\ inboundCount = 0
    /\ indexNodes = [key \in Keys |-> <<>>]
    /\ indexAnchors = {}
    /\ anchorNodes = <<>>

\* checkout.editor.<edit>(): a data or a schema edit
DoEdit(c, schema, take, n) ==
    LET After(w) ==
            /\ Becomes(w, n)
            /\ txg' = IF w.err # "" THEN txg
                      ELSE [txg EXCEPT ![c] = [i \in 1..Len(@) |->
                             [@[i] EXCEPT !.edits =
                                Append(@, [change |-> EditChange(nextRev, schema)])]]]
    IN After(Edit(World, c, schema, take))

\* checkout.transaction.start(), while the stack of transactions and the
\* editor's count of them are below `depth`
DoStart(c, depth, n) ==
    LET After(w) ==
            /\ Becomes(w, n)
            /\ txg' = IF w.err # "" THEN txg
                      ELSE [txg EXCEPT ![c] = Append(@,
                             [head0 |-> HeadOf(c), forest0 |-> checkouts[c].forest,
                              edits |-> <<>>, clean |-> TRUE,
                              branches0 |-> Len(branches)])]
    IN /\ Len(checkouts[c].transactions) < depth
       /\ checkouts[c].editorDepth < depth
       /\ After(startTransaction(World, c))

\* checkout.transaction.commit()
DoCommit(c, take, n) ==
    LET After(w) ==
            /\ Becomes(w, n)
            /\ txg' = IF Len(w.co[c].transactions) = Len(checkouts[c].transactions)
                      THEN txg
                      ELSE [txg EXCEPT ![c] = Front(@)]
    IN After(commitTransaction(World, c, take))

\* checkout.transaction.abort()
DoAbort(c, n) ==
    LET k == Len(TopFrame(c).edits)
        After(w) ==
            /\ Becomes(w, n)
            /\ txg' = IF Len(w.co[c].transactions) = Len(checkouts[c].transactions)
                      THEN txg
                      ELSE [txg EXCEPT ![c] = [i \in 1..(Len(@) - 1) |->
                             [@[i] EXCEPT !.edits = SubSeq(@, 1, Len(@) - k)]]]
    IN After(abortTransaction(World, c))

\* checkout.branch() while the model has fewer than `most` checkouts
DoBranchUpTo(c, most, n) ==
    LET After(w) ==
            /\ Becomes(w, n)
            /\ txg' = IF Len(w.co) > Len(checkouts) THEN Append(txg, <<>>) ELSE txg
    IN /\ Len(checkouts) < most
       /\ After(branch(World, c))

\* checkout.branch(): the model has the main checkout and one fork of it
DoBranch(c, n) == DoBranchUpTo(c, 2, n)

\* c.rebase(src), i.e. src.rebaseOnto(c)
DoRebase(c, src, n) ==
    LET After(w) ==
            /\ Becomes(w, n)
            /\ txg' = IF w.err = "" /\ w.res.val = "result"
                      THEN [txg EXCEPT ![c] =
                                [i \in 1..Len(@) |-> [@[i] EXCEPT !.clean = FALSE]]]
                      ELSE txg
    IN /\ c # src
       /\ After(rebase(World, c, src))

\* c.merge(src, disposeMerged)
DoMerge(c, src, disposeMerged, take, n) ==
    /\ c # src
    /\ Becomes(merge(World, c, src, disposeMerged, take), n)
    /\ UNCHANGED txg

\* checkout.dispose()
DoDispose(c, n) ==
    /\ Becomes(dispose(World, c), n)
    /\ UNCHANGED txg

\* The commits a caller may name as upTo when rebasing src onto tgt
UpTos(src, tgt) == Range(Ancestry(commits, HeadOf(tgt))) \cup {HeadOf(src)}

\* The branch of checkout `src` rebased by its owner with an explicit upTo:
\* src._branch.rebaseOnto(tgt._branch, upTo).  As in TreeCheckout.rebase, a
\* branch is not rebased while its checkout has a pending transaction.
DoRebaseOnto(src, tgt, upTo, n) ==
    /\ src # tgt
    /\ ~isTransacting(World, src)
    /\ Becomes(BranchRebaseOnto(World, checkouts[src].branch, checkouts[tgt].branch,
                                upTo, -1), n)
    /\ UNCHANGED txg

\* handle.revert(release)
DoRevert(h, release, take, n) ==
    /\ Becomes(RevertibleRevert(World, h.co, h.revision, h.kind, release, take), n)
    /\ UNCHANGED txg

\* handle.dispose()
DoDisposeRevertible(h, n) ==
    /\ Becomes(RevertibleDispose(World, h.co, h.revision), n)
    /\ UNCHANGED txg

\* A factory kept by the application and invoked after its event returned
LateFactory(w, f) ==
    getRevertible(w, f.co,
        [revision |-> f.revision, kind |-> f.kind, commit |-> f.commit],
        f.withinEventContext)

DoLateFactory(f, n) ==
    /\ Becomes(LateFactory(World, f), n)
    /\ UNCHANGED txg

\* The revisions below commit k, which the trimmer drops by deleting the
\* parent pointer of k
TrimmedBy(k) == Range(Revisions(commits, Front(Ancestry(commits, k))))

\* The branch trimmer trims the ancestry below commit k, which every branch
\* still in use has in its ancestry, and emits ancestryTrimmed
DoTrim(k, n) ==
    /\ TrimmedBy(k) # {}
    /\ \A b \in 1..Len(branches) :
            ~branches[b].disposed => k \in Range(Ancestry(commits, branches[b].head))
    /\ Becomes(Trim([World EXCEPT !.cs[k].parent = Undefined], TrimmedBy(k)), n)
    /\ UNCHANGED txg

\* One checkout with edits and nested transactions
NextTx ==
    \/ DoEdit(1, FALSE, -1, TxCommits)
    \/ DoStart(1, MaxDepth, TxCommits)
    \/ DoCommit(1, -1, TxCommits)
    \/ DoAbort(1, TxCommits)

SpecTx == Init /\ [][NextTx]_vars

\* A checkout and its fork, each with edits and transactions of its own
NextFk ==
    \/ \E c \in Checkouts : DoEdit(c, FALSE, -1, FkCommits)
    \/ \E c \in Checkouts : DoStart(c, 1, FkCommits)
    \/ \E c \in Checkouts : DoCommit(c, -1, FkCommits)
    \/ \E c \in Checkouts : DoAbort(c, FkCommits)
    \/ DoBranch(1, FkCommits)

SpecFk == Init /\ [][NextFk]_vars

\* Two checkouts that edit, merge and rebase
NextBr ==
    \/ \E c \in Checkouts : DoEdit(c, FALSE, -1, BrCommits)
    \/ DoBranch(1, BrCommits)
    \/ \E c \in Checkouts, src \in Checkouts : DoRebase(c, src, BrCommits)
    \/ \E c \in Checkouts, src \in Checkouts, d \in BOOLEAN :
            DoMerge(c, src, d, -1, BrCommits)
    \/ \E src \in Checkouts, tgt \in Checkouts :
        \E upTo \in UpTos(src, tgt) : DoRebaseOnto(src, tgt, upTo, BrCommits)

SpecBr == Init /\ [][NextBr]_vars

\* One checkout whose listener takes revertibles
NextRv ==
    \/ \E schema \in BOOLEAN, take \in Listeners : DoEdit(1, schema, take, RvCommits)
    \/ DoStart(1, 1, RvCommits)
    \/ \E take \in Listeners : DoCommit(1, take, RvCommits)
    \/ DoAbort(1, RvCommits)
    \/ \E h \in handles, release \in BOOLEAN, take \in Listeners :
            DoRevert(h, release, take, RvCommits)
    \/ \E h \in handles : DoDisposeRevertible(h, RvCommits)
    \/ \E f \in factories : DoLateFactory(f, RvCommits)

SpecRv == Init /\ [][NextRv]_vars

\* A checkout that edits, with and without transactions, and takes
\* revertibles while the ancestry is trimmed, until it is disposed
NextTr ==
    \/ \E take \in {-1, 1} : DoEdit(1, FALSE, take, TrCommits)
    \/ DoStart(1, 1, TrCommits)
    \/ DoCommit(1, -1, TrCommits)
    \/ DoAbort(1, TrCommits)
    \/ DoDispose(1, TrCommits)
    \/ \E k \in 1..Len(commits) : DoTrim(k, TrCommits)

SpecTr == Init /\ [][NextTr]_vars

\* A checkout with edits and nested transactions that is forked, and whose
\* forks are forked, before and during the transactions
NextNf ==
    \/ DoEdit(1, FALSE, -1, NfCommits)
    \/ DoStart(1, MaxDepth, NfCommits)
    \/ DoCommit(1, -1, NfCommits)
    \/ DoAbort(1, NfCommits)
    \/ \E c \in Checkouts : DoBranchUpTo(c, 3, NfCommits)

SpecNf == Init /\ [][NextNf]_vars

\* The messages that may arrive as message number csn: one that is not
\* grouped, with or without a batch flag (its clientId is "" when the server
\* made it), or a grouped batch
Inbound(csn) ==
    {[clientId |-> c, clientSequenceNumber |-> csn,
      metadata |-> [batch |-> flag, batchId |-> ""],
      type |-> "op", contents |-> [type |-> t, contents |-> csn]] :
        c \in Clients \cup {""}, flag \in {"undefined", "true", "false"}, t \in InnerTypes}
    \cup
    {[clientId |-> c, clientSequenceNumber |-> csn,
      metadata |-> [batch |-> "undefined", batchId |-> "id"],
      type |-> "op",
      contents |-> [type |-> "groupedBatch",
                    contents |-> [i \in 1..k |->
                        [contents |-> [type |-> "component", contents |-> i],
                         metadata |-> [batch |-> "undefined", batchId |-> ""]]]]] :
        c \in Clients, k \in 0..MaxGrouped}

\* processor.process(message, logLegacyCase)
DoProcess(message) ==
    /\ inboundCount < MaxInbound
    /\ batchInProgress' = process(batchInProgress, message).batch
    /\ inboundCount' = inboundCount + 1
    /\ UNCHANGED <<tree, index>>

\* A RemoteMessageProcessor that is handed inbound messages
NextMp == \E message \in Inbound(inboundCount + 1) : DoProcess(message)

SpecMp == Init /\ [][NextMp]_vars

\* The AnchorTreeIndex as its listeners see it
Ix == [nodes |-> indexNodes, anchors |-> indexAnchors, listeners |-> anchorNodes,
       err |-> ""]

\* The forest creates a node that indexField indexes under `key`
DoIndex(key) ==
    /\ Len(anchorNodes) < MaxNodes
    /\ indexNodes' = indexNode(Ix, key).nodes
    /\ indexAnchors' = indexNode(Ix, key).anchors
    /\ anchorNodes' = indexNode(Ix, key).listeners
    /\ UNCHANGED <<tree, processor>>

\* An anchor node is destroyed and emits afterDestroy, once
DoDestroy(anchorNode) ==
    /\ ~anchorNodes[anchorNode].destroyed
    /\ indexNodes' = afterDestroy(Ix, anchorNode).nodes
    /\ indexAnchors' = afterDestroy(Ix, anchorNode).anchors
    /\ anchorNodes' = [anchorNodes EXCEPT ![anchorNode].destroyed = TRUE]
    /\ UNCHANGED <<tree, processor>>

\* An AnchorTreeIndex over a forest whose nodes are created and destroyed
NextIx ==
    \/ \E key \in Keys : DoIndex(key)
    \/ \E anchorNode \in 1..Len(anchorNodes) : DoDestroy(anchorNode)

SpecIx == Init /\ [][NextIx]_vars

\* ------------------------------------------------------------ properties
\* The properties are stated on the world a handler returns when it is
\* called in the current state.
Transactions(c) == Len(checkouts[c].transactions)
HeadIn(w, c) == w.br[checkouts[c].branch].head

C2_AbortRestoresHead ==
    \A c \in Checkouts :
        LET frame == TopFrame(c)
            w == abortTransaction(World, c)
            head == HeadIn(w, c)
        IN (Transactions(c) >= 1 /\ frame.clean) =>
            /\ w.err = ""
            /\ head = frame.head0
            /\ w.cs[head].revision = commits[frame.head0].revision
            /\ Len(w.co[c].transactions) = Transactions(c) - 1

\* A nested transaction with an edit is aborted.
C2_Witness ==
    \E c \in Checkouts :
        LET frame == TopFrame(c)
            w == abortTransaction(World, c)
        IN /\ Transactions(c) = 2 /\ Len(frame.edits) >= 1 /\ frame.clean
           /\ HeadOf(c) # frame.head0
           /\ Fits(w, TxCommits)
           /\ HeadIn(w, c) = frame.head0
           /\ Len(w.co[c].transactions) = 1

\* C3: aborting a transaction of n >= 1 edits restores the observable tree
\* state (what the beforeChange events have applied, in order) to the state
\* before the transaction started, also when the branch had commits before.
C3_AbortRestoresState ==
    \A c \in Checkouts :
        LET frame == TopFrame(c)
            w == abortTransaction(World, c)
        IN (Transactions(c) >= 1 /\ Len(frame.edits) >= 1 /\ frame.clean) =>
            w.co[c].forest = frame.forest0

\* C4: an apply or a rollback on one of a branch and its fork never changes
\* the head of the other one.
C4_ForkIsolation ==
    \A c \in Checkouts, o \in Checkouts :
        LET b == checkouts[c].branch
            revs == {commits[x].revision : x \in Range(Ancestry(commits, HeadOf(c)))}
        IN c # o =>
            /\ HeadIn(Edit(World, c, FALSE, -1), o) = HeadOf(o)
            /\ HeadIn(abortTransaction(World, c), o) = HeadOf(o)
            /\ HeadIn(commitTransaction(World, c, -1), o) = HeadOf(o)
            /\ \A r \in revs : HeadIn(BranchRollback(World, b, r), o) = HeadOf(o)

\* Both the checkout and its fork have moved on, and a transaction with an
\* edit is rolled back on one of them.
C4_Witness ==
    \E c \in Checkouts, o \in Checkouts :
        LET w == abortTransaction(World, c)
        IN /\ c # o
           /\ HeadOf(c) # HeadOf(o)
           /\ commits[HeadOf(o)].parent # Undefined
           /\ Transactions(c) = 1 /\ Len(TopFrame(c).edits) >= 1
           /\ Fits(w, FkCommits)
           /\ HeadIn(w, c) # HeadOf(c)
           /\ HeadIn(w, o) = HeadOf(o)

BranchOf(c) == checkouts[c].branch
ChangeEvents(w, b) ==
    SelectSeq(w.ev, LAMBDA e : e.branch = b /\ e.name \in {"beforeChange", "afterChange"})
Divergent(src, tgt) ==
    PathAfter(commits, CommonAncestor(commits, HeadOf(src), HeadOf(tgt)), HeadOf(src))
\* The commits minted by a call that ran from the current state to w
Minted(w) == [i \in 1..(Len(w.cs) - Len(commits)) |-> Len(commits) + i]

\* C5: rebaseOnto(target, upTo) on a branch whose head is upTo returns
\* undefined, leaves the head where it is and emits no event.
C5_NoOpRebase ==
    \A src \in Checkouts, tgt \in Checkouts :
        LET b == BranchOf(src)
            w == BranchRebaseOnto(World, b, BranchOf(tgt), HeadOf(src), -1)
        IN (src # tgt /\ ~branches[b].disposed) =>
            /\ w.err = ""
            /\ w.res.val = "undefined"
            /\ w.br[b].head = HeadOf(src)
            /\ w.ev = <<>>
            /\ w.cs = commits

\* A branch that is behind its target is rebased up to its own head.
C5_Witness ==
    \E src \in Checkouts, tgt \in Checkouts :
        LET b == BranchOf(src)
            w == BranchRebaseOnto(World, b, BranchOf(tgt), HeadOf(src), -1)
        IN /\ src # tgt /\ ~branches[b].disposed
           /\ HeadOf(src) # HeadOf(tgt)
           /\ HeadOf(src) \in Range(Ancestry(commits, HeadOf(tgt)))
           /\ w.res.val = "undefined"
           /\ w.ev = <<>>

\* The case of C6 and C7: two live branches that both have commits after
\* their common ancestor, none of them already on the other branch.
Diverged(src, tgt) ==
    /\ src # tgt
    /\ ~branches[BranchOf(src)].disposed /\ ~branches[BranchOf(tgt)].disposed
    /\ Divergent(src, tgt) # <<>> /\ Divergent(tgt, src) # <<>>
    /\ Range(Revisions(commits, Divergent(src, tgt)))
            \cap Range(Revisions(commits, Divergent(tgt, src))) = {}

\* The commits in `minted` are the forms of the commits in `path` rebased
\* over `over`, in the order of `path`, on top of `base`.
RebasedForms(w, minted, path, over, base) ==
    /\ Len(minted) = Len(path)
    /\ \A i \in 1..Len(minted) :
        /\ w.cs[minted[i]].revision = commits[path[i]].revision
        /\ w.cs[minted[i]].change =
                Rebase(commits[path[i]].change,
                       Compose([j \in 1..Len(over) |-> commits[over[j]]]))
        /\ w.cs[minted[i]].parent = IF i = 1 THEN base ELSE minted[i - 1]

\* C6 as the specification states it: after A.merge(B) the ancestry of A's
\* head is the common ancestry, then B's commits, then the rebased forms of
\* A's commits.
C6_MergedUnder ==
    \A a \in Checkouts, b \in Checkouts :
        LET w == BranchMerge(World, BranchOf(a), BranchOf(b), -1)
        IN Diverged(a, b) =>
            Revisions(w.cs, Ancestry(w.cs, HeadIn(w, a))) =
                Revisions(commits, Ancestry(commits, HeadOf(b)))
                    \o Revisions(commits, Divergent(a, b))

\* C6 as the code behaves: after A.merge(B) the ancestry of A's head is A's
\* ancestry as it was (common ancestry, then A's commits unchanged), then
\* the rebased forms of B's commits; B's head is unchanged.
C6_MergedOnTop ==
    \A a \in Checkouts, b \in Checkouts :
        LET w == BranchMerge(World, BranchOf(a), BranchOf(b), -1)
        IN Diverged(a, b) =>
            /\ w.err = ""
            /\ Ancestry(w.cs, HeadIn(w, a)) = Ancestry(commits, HeadOf(a)) \o Minted(w)
            /\ RebasedForms(w, Minted(w), Divergent(b, a), Divergent(a, b), HeadOf(a))
            /\ HeadIn(w, b) = HeadOf(b)

\* A with commits a1, a2 and B with b1 on a shared ancestor; B is merged
\* into A.
C6_Witness ==
    \E a \in Checkouts, b \in Checkouts :
        LET w == BranchMerge(World, BranchOf(a), BranchOf(b), -1)
        IN /\ Diverged(a, b)
           /\ Len(Divergent(a, b)) = 2 /\ Len(Divergent(b, a)) = 1
           /\ Fits(w, BrCommits)
           /\ Len(Ancestry(w.cs, HeadIn(w, a))) = Len(Ancestry(commits, HeadOf(a))) + 1

Valid(w, h) == Status(w, h.co, h.revision) = "Valid"
Revert(w, h, release) == RevertibleRevert(w, h.co, h.revision, h.kind, release, -1)
\* The call threw a usage error and added no commit
Refused(w) ==
    /\ w.err = "UsageError"
    /\ w.cs = commits
    /\ \A b \in 1..Len(branches) : w.br[b].head = branches[b].head

Caught(w) == [w EXCEPT !.err = ""]

\* C9: revert() on a Valid revertible during a transaction of its checkout
\* throws a usage error, applies no commit and leaves the handle Valid: it
\* can be reverted once the transaction has ended.
C9_RevertInTransaction ==
    \A h \in handles, release \in BOOLEAN :
        LET c == h.co
            w == Revert(World, h, release)
            committed == commitTransaction(Caught(w), c, -1)
            aborted == abortTransaction(Caught(w), c)
        IN (Valid(World, h) /\ Transactions(c) >= 1) =>
            /\ Refused(w)
            /\ Valid(w, h)
            /\ Transactions(c) = 1 =>
                /\ committed.err = "" /\ Revert(committed, h, release).err = ""
                /\ aborted.err = "" /\ Revert(aborted, h, release).err = ""

\* A Valid revertible is reverted during a transaction that has an edit
C9_Witness ==
    \E h \in handles :
        /\ Valid(World, h)
        /\ Transactions(h.co) = 1
        /\ Len(TopFrame(h.co).edits) >= 1
        /\ Refused(Revert(World, h, TRUE))
        /\ Valid(Revert(World, h, TRUE), h)

GetRevertibleEvents(w) == SelectSeq(w.ev, LAMBDA e : e.name = "getRevertible")

\* C10: a revertible factory invoked after its notification has returned
\* throws a usage error and pins no branch; invoked a second time during the
\* notification, while the first handle is Valid, it throws as well.
C10_FactoryOnlyInEvent ==
    /\ \A f \in factories :
        LET w == LateFactory(World, f)
        IN /\ w.err = "UsageError"
           /\ w.co = checkouts /\ w.br = branches /\ w.hs = handles
    /\ \A c \in Checkouts :
        LET w == Edit(World, c, FALSE, 2)
            taken == GetRevertibleEvents(w)
        IN (Transactions(c) = 0 /\ ~checkouts[c].disposed) =>
            /\ Len(taken) = 2
            /\ taken[1].info = "ok" /\ taken[2].info = "UsageError"
            /\ Len(w.br) = Len(branches) + 1
            /\ Cardinality(w.co[c].revertibleCommitBranches) =
                    Cardinality(checkouts[c].revertibleCommitBranches) + 1

\* A listener kept a factory without invoking it and invokes it later;
\* another listener invoked its factory twice.
C10_Witness ==
    /\ \E f \in factories :
        /\ \A p \in checkouts[f.co].revertibleCommitBranches : p.revision # f.revision
        /\ LateFactory(World, f).err = "UsageError"
    /\ \E f \in factories :
        /\ \E p \in checkouts[f.co].revertibleCommitBranches : p.revision = f.revision
        /\ LateFactory(World, f).err = "UsageError"

\* The `changed` events in the trace of w
ChangedEvents(w) == SelectSeq(w.ev, LAMBDA e : e.name = "changed")

\* C11: a successful revert() appends exactly one commit to the head of the
\* checkout; its kind is Undo when the reverted commit was Default or Redo
\* and Redo when it was Undo, and the one commit notification of the revert
\* is for that commit and carries that kind.
C11_RevertKind ==
    \A h \in handles, release \in BOOLEAN, take \in Listeners :
        LET w == RevertibleRevert(World, h.co, h.revision, h.kind, release, take)
            head == HeadIn(w, h.co)
            expected == IF h.kind \in {"Default", "Redo"} THEN "Undo" ELSE "Redo"
            appended == SelectSeq(w.ev, LAMBDA e : e.name = "afterChange")
            changed == ChangedEvents(w)
        IN (Valid(World, h) /\ w.err = "") =>
            /\ Len(w.cs) = Len(commits) + 1
            /\ head = Len(w.cs)
            /\ w.cs[head].parent = HeadOf(h.co)
            /\ Len(appended) = 1
            /\ appended[1].type = "append"
            /\ appended[1].kind = expected
            /\ appended[1].newCommits = <<head>>
            /\ Len(changed) = 1
            /\ changed[1].kind = expected
            /\ changed[1].newCommits = <<head>>
            /\ take >= 1 =>
                [co |-> h.co, revision |-> w.cs[head].revision, kind |-> expected]
                    \in w.hs

\* An undo is reverted: the redo is the head
C11_Witness ==
    \E h \in handles, release \in BOOLEAN :
        LET w == RevertibleRevert(World, h.co, h.revision, h.kind, release, 1)
        IN /\ h.kind = "Undo"
           /\ Valid(World, h)
           /\ w.err = ""
           /\ Fits(w, RvCommits)
           /\ ChangedEvents(w)[1].kind = "Redo"

\* C12: while a transaction is in progress on a checkout, an edit or the
\* commit of an inner transaction emits no commit notification and offers no
\* revertible; the commit of the outermost transaction with at least one
\* edit emits exactly one notification, for the squash commit.
C12_OneNotificationPerTransaction ==
    \A c \in Checkouts, take \in Listeners, schema \in BOOLEAN :
        LET e == Edit(World, c, schema, take)
            k == commitTransaction(World, c, take)
            changed == ChangedEvents(k)
        IN Transactions(c) >= 1 =>
            /\ e.err = ""
            /\ HeadIn(e, c) = Len(commits) + 1
            /\ ChangedEvents(e) = <<>>
            /\ e.fa = factories /\ e.hs = handles
            /\ Transactions(c) > 1 =>
                /\ k.err = ""
                /\ changed = <<>>
                /\ k.fa = factories /\ k.hs = handles
            /\ (Transactions(c) = 1 /\ TopFrame(c).edits # <<>>) =>
                /\ k.err = ""
                /\ Len(changed) = 1
                /\ changed[1].type = "local"
                /\ changed[1].newCommits = <<HeadIn(k, c)>>
                /\ k.cs[HeadIn(k, c)].change = Compose(TopFrame(c).edits)
                /\ \A f \in k.fa \ factories : f.commit = HeadIn(k, c)
                /\ Cardinality(k.fa \ factories) = IF take >= 0 THEN 1 ELSE 0
                /\ Cardinality(k.hs \ handles) = IF take >= 1 THEN 1 ELSE 0

\* The outermost transaction is committed after two or more edits and its
\* listener takes the one revertible
C12_Witness ==
    \E c \in Checkouts :
        LET k == commitTransaction(World, c, 1)
        IN /\ Transactions(c) = 1
           /\ Len(TopFrame(c).edits) >= 2
           /\ HeadOf(c) # TopFrame(c).head0
           /\ k.err = ""
           /\ Fits(k, TxCommits)
           /\ Len(ChangedEvents(k)) = 1
           /\ Cardinality(k.hs) = 1

\* The tree state of checkout c after the revertible of its head commit,
\* which is of the given kind, is reverted in w
RevertHead(w, c, kind) ==
    RevertibleRevert(w, c, w.cs[w.br[w.co[c].branch].head].revision, kind, FALSE, 1)

\* C13: reverting the revertible of the head commit C restores the tree
\* state before C, and reverting the revertible of that undo restores the
\* tree state after C, for an edit C and for C the squash commit of a
\* transaction with two or more edits of the data.
C13_UndoRedoRoundTrip ==
    \A c \in Checkouts :
        LET Undone(after, before, state) ==
                /\ after.err = ""
                /\ RevertHead(after, c, "Default").err = ""
                /\ RevertHead(after, c, "Default").co[c].forest = before
                /\ RevertHead(RevertHead(after, c, "Default"), c, "Undo").err = ""
                /\ RevertHead(RevertHead(after, c, "Default"), c, "Undo").co[c].forest
                        = state
        IN /\ Transactions(c) = 0 =>
                Undone(Edit(World, c, FALSE, 1), checkouts[c].forest,
                       ApplyChange(checkouts[c].forest, EditChange(nextRev, FALSE)))
           /\ (/\ Transactions(c) = 1
               /\ Len(TopFrame(c).edits) >= 2
               /\ ~hasSchemaChange(Compose(TopFrame(c).edits))) =>
                Undone(commitTransaction(World, c, 1), TopFrame(c).forest0,
                       checkouts[c].forest)

\* The call on branch b ended in w with an error, the head of b unchanged
\* and no change event of b
Frozen(w, b) ==
    /\ w.err # ""
    /\ w.br[b].head = branches[b].head
    /\ ChangeEvents(w, b) = <<>>

\* C14: on a disposed branch, apply, rollback, rebaseOnto, merge (as the
\* target or as the source), fork and setHead fail, leave the head of the
\* branch unchanged and emit no change event.
C14_DisposedBranchFrozen ==
    \A b \in 1..Len(branches) :
        branches[b].disposed =>
            /\ Frozen(BranchApply(World, b, nextRev, EditChange(nextRev, FALSE),
                                  "Default", -1), b)
            /\ \A i \in 1..Len(commits) :
                /\ Frozen(BranchRollback(World, b, commits[i].revision), b)
                /\ Frozen(BranchFork(World, b, i), b)
                /\ Frozen(BranchSetHead(World, b, i), b)
            /\ \A other \in 1..Len(branches) :
                /\ Frozen(BranchRebaseOnto(World, b, other, branches[other].head, -1), b)
                /\ Frozen(BranchMerge(World, b, other, -1), b)
                /\ Frozen(BranchMerge(World, other, b, -1), b)

\* The events of the given name that branch b emitted in w
BranchEvents(w, b, name) ==
    SelectSeq(w.ev, LAMBDA e : e.branch = b /\ e.name = name)

\* The sets of revisions a trimmer may announce
TrimmedSets == (SUBSET {commits[i].revision : i \in 1..Len(commits)}) \ {{}}

\* C15: the first dispose() of a branch emits the dispose event once, a
\* repeated dispose() changes nothing, emits nothing and does not throw, and
\* a disposed branch forwards no ancestryTrimmed event of its trimmer.
C15_DisposeOnce ==
    \A b \in 1..Len(branches) :
        LET first == BranchDispose(World, b)
            second == BranchDispose(first, b)
        IN /\ first.err = ""
           /\ first.br[b].disposed
           /\ Len(BranchEvents(first, b, "dispose")) =
                    IF branches[b].disposed THEN 0 ELSE 1
           /\ branches[b].disposed => first = World
           /\ second = first
           /\ \A revisions \in TrimmedSets :
                /\ BranchEvents(Trim(second, revisions), b, "ancestryTrimmed") = <<>>
                /\ \A c \in Checkouts :
                        checkouts[c].branch = b =>
                            Trim(second, revisions).co[c] = second.co[c]

\* A branch that forwards the events of its trimmer is disposed twice, next
\* to a branch that is still subscribed
C15_Witness ==
    \E b \in 1..Len(branches), other \in 1..Len(branches), revisions \in TrimmedSets :
        LET second == BranchDispose(BranchDispose(World, b), b)
        IN /\ ~branches[b].disposed
           /\ Len(BranchEvents(Trim(World, revisions), b, "ancestryTrimmed")) = 1
           /\ Len(BranchEvents(second, b, "dispose")) = 1
           /\ BranchEvents(Trim(second, revisions), b, "ancestryTrimmed") = <<>>
           /\ Len(BranchEvents(Trim(second, revisions), other, "ancestryTrimmed")) = 1

\* The change description an event carries
Description(e) ==
    [type |-> e.type, kind |-> e.kind, change |-> e.change,
     newCommits |-> e.newCommits, removedCommits |-> e.removedCommits]

\* The change to branch b that ended in w emitted one beforeChange and then
\* one afterChange with the same description; what branch b emitted up to
\* afterChange saw the head `pre`, afterChange and what followed saw the head
\* the branch has in w.
OneChange(w, b, pre) ==
    LET evs == SelectSeq(w.ev, LAMBDA e : e.branch = b)
        At(name) == {i \in 1..Len(evs) : evs[i].name = name}
        Ordered(i, j) ==
            /\ i < j
            /\ Description(evs[i]) = Description(evs[j])
            /\ \A k \in 1..Len(evs) :
                    evs[k].head = IF k < j THEN pre ELSE w.br[b].head
    IN /\ Cardinality(At("beforeChange")) = 1
       /\ Cardinality(At("afterChange")) = 1
       /\ Ordered(CHOOSE i \in At("beforeChange") : TRUE,
                  CHOOSE j \in At("afterChange") : TRUE)

\* The call changed branch b: it neither failed nor returned undefined
Changed(w) == w.err = "" /\ w.res.val # "undefined"

\* C16: each apply, rollback, rebaseOnto and merge that changes a branch
\* emits exactly one beforeChange and then exactly one afterChange with the
\* same change description; the branch has its old head while beforeChange
\* is dispatched and its new head while afterChange is dispatched.
C16_BeforeThenAfter ==
    \A b \in 1..Len(branches) :
        LET pre == branches[b].head
            Once(w) == Changed(w) => OneChange(w, b, pre)
        IN /\ \A take \in Listeners :
                /\ Once(BranchApply(World, b, nextRev, EditChange(nextRev, FALSE),
                                    "Default", take))
                /\ \A other \in 1..Len(branches) :
                        Once(BranchMerge(World, b, other, take))
           /\ \A i \in 1..Len(commits) :
                Once(BranchRollback(World, b, commits[i].revision))
           /\ \A other \in 1..Len(branches) :
                \A upTo \in Range(Ancestry(commits, branches[other].head)) :
                    Once(BranchRebaseOnto(World, b, other, upTo, -1))

\* A branch is rebased and a branch is merged into, each with a change of
\* its head, and a listener takes a revertible while afterChange is
\* dispatched
C16_Witness ==
    \E b \in 1..Len(branches), other \in 1..Len(branches) :
        LET rebased == BranchRebaseOnto(World, b, other, branches[other].head, 1)
            merged == BranchMerge(World, other, b, 1)
        IN /\ Changed(rebased) /\ Fits(rebased, BrCommits)
           /\ rebased.br[b].head # branches[b].head
           /\ Changed(merged) /\ Fits(merged, BrCommits)
           /\ merged.br[other].head # branches[other].head
           /\ Len(BranchEvents(merged, other, "getRevertible")) >= 1

\* The transaction on checkout c that ended in w was an inner one: the outer
\* transaction is still in progress, one transaction less is open, and the
\* commits up to the head at which the inner transaction started are in the
\* ancestry of the head.
InnerEnded(w, c) ==
    /\ w.err = ""
    /\ isTransacting(w, c)
    /\ Len(w.co[c].transactions) = Transactions(c) - 1
    /\ \A k \in Range(Ancestry(commits, TopFrame(c).head0)) :
            k \in Range(Ancestry(w.cs, HeadIn(w, c)))

\* C17: a checkout is in a transaction exactly when more transactions were
\* started on it than were committed or aborted; when an inner transaction
\* is committed or aborted the outer one stays in progress and the commits
\* made in it before the inner one started stay in the ancestry of the head.
C17_Nesting ==
    \A c \in Checkouts :
        LET started == startTransaction(World, c)
        IN /\ isTransacting(World, c) <=> Len(txg[c]) > 0
           /\ Len(txg[c]) = Transactions(c)
           /\ started.err = ""
           /\ isTransacting(started, c)
           /\ Len(started.co[c].transactions) = Transactions(c) + 1
           /\ Transactions(c) >= 2 =>
                /\ InnerEnded(commitTransaction(World, c, -1), c)
                /\ InnerEnded(abortTransaction(World, c), c)
           /\ Transactions(c) = 1 =>
                /\ ~isTransacting(commitTransaction(World, c, -1), c)
                /\ ~isTransacting(abortTransaction(World, c), c)

\* An inner transaction with an edit is open in an outer transaction that
\* made a commit before the inner one started
C17_Witness ==
    \E c \in Checkouts :
        /\ Transactions(c) = 2
        /\ txg[c][1].head0 # txg[c][2].head0
        /\ HeadOf(c) # txg[c][2].head0
        /\ InnerEnded(commitTransaction(World, c, -1), c)
        /\ Fits(commitTransaction(World, c, -1), TxCommits)
        /\ InnerEnded(abortTransaction(World, c), c)

\* The call on checkout c that ended in w failed and left the head, the
\* open transactions and the revertibles of the checkout as they were
Rejected(w, c) ==
    /\ w.err = "assert"
    /\ HeadIn(w, c) = HeadOf(c)
    /\ w.co[c].transactions = checkouts[c].transactions
    /\ w.co[c].revertibles = checkouts[c].revertibles
    /\ w.co[c].revertibleCommitBranches = checkouts[c].revertibleCommitBranches
    /\ w.br = branches
    /\ w.hs = handles

\* C18: commitTransaction and abortTransaction fail when no transaction is
\* in progress and leave the head, the transaction depth and the registry of
\* revertibles unchanged.
C18_NoTransactionToEnd ==
    \A c \in Checkouts, take \in Listeners :
        Transactions(c) = 0 =>
            /\ Rejected(commitTransaction(World, c, take), c)
            /\ Rejected(abortTransaction(World, c), c)

\* No transaction is in progress on a checkout with a commit and a
\* revertible, and the calls are rejected
C18_Witness ==
    \E c \in Checkouts :
        /\ Transactions(c) = 0
        /\ HeadOf(c) # 1
        /\ checkouts[c].revertibles # {}
        /\ Rejected(commitTransaction(World, c, 1), c)
        /\ Rejected(abortTransaction(World, c), c)

\* The branches made after the branches 1..n0 that were forked from branch b
\* or from one of these forks
ForksOf(b, n0) ==
    LET RECURSIVE Closure(_)
        Closure(S) ==
            LET more == S \cup {f \in (n0 + 1)..Len(branches) : branches[f].origin \in S}
            IN IF more = S THEN S ELSE Closure(more)
    IN Closure({f \in (n0 + 1)..Len(branches) : branches[f].origin = b})

\* The transaction of checkout c that ended in w disposed the branches
\* forked during the transaction and none of the others
ForksDisposed(w, c) ==
    LET during == ForksOf(checkouts[c].branch, TopFrame(c).branches0)
    IN /\ Len(w.co[c].transactions) = Transactions(c) - 1
       /\ \A f \in 1..Len(branches) :
            w.br[f].disposed = (branches[f].disposed \/ f \in during)

\* C19: when a transaction ends, by commit or by abort, the branches forked
\* from the transacting branch during the transaction, directly or through
\* forks of forks, are disposed; the branches forked before the transaction
\* started are not disposed by it.
C19_ForksDisposed ==
    \A c \in Checkouts :
        Transactions(c) >= 1 =>
            /\ ForksDisposed(commitTransaction(World, c, -1), c)
            /\ ForksDisposed(abortTransaction(World, c), c)

\* A transaction ends on a branch with a fork made before it started and,
\* made during it, a fork and a fork of that fork
C19_Witness ==
    \E c \in Checkouts, f \in 1..Len(branches), g \in 1..Len(branches) :
        LET during == ForksOf(checkouts[c].branch, TopFrame(c).branches0)
        IN /\ Transactions(c) >= 1
           /\ f \in during /\ branches[f].origin = checkouts[c].branch
           /\ g \in during /\ branches[g].origin = f
           /\ ~branches[f].disposed /\ ~branches[g].disposed
           /\ ForksDisposed(commitTransaction(World, c, -1), c)
           /\ ForksDisposed(abortTransaction(World, c), c)

\* The removed roots of checkout c in w that the given revisions touched last
TouchedBy(w, c, revisions) == {e \in w.co[c].removedRoots : e.revision \in revisions}

\* C20: when an ancestryTrimmed notification reaches a checkout that is not
\* disposed, its removed roots hold no entry last touched by one of the
\* trimmed revisions afterwards, and the other entries are kept.
C20_TrimmedRootsCollected ==
    \A c \in Checkouts, revisions \in TrimmedSets :
        LET w == Trim(World, revisions)
        IN (~checkouts[c].disposed /\ branches[checkouts[c].branch].subscribed) =>
            /\ w.err = ""
            /\ Len(BranchEvents(w, checkouts[c].branch, "ancestryTrimmed")) = 1
            /\ TouchedBy(w, c, revisions) = {}
            /\ w.co[c].removedRoots =
                    checkouts[c].removedRoots \ TouchedBy(World, c, revisions)

\* Two revisions with removed roots are trimmed on a checkout that holds a
\* removed root of a later revision as well
C20_Witness ==
    \E c \in Checkouts, revisions \in TrimmedSets :
        LET w == Trim(World, revisions)
        IN /\ ~checkouts[c].disposed
           /\ Cardinality({e.revision : e \in TouchedBy(World, c, revisions)}) >= 2
           /\ checkouts[c].removedRoots \ TouchedBy(World, c, revisions) # {}
           /\ TouchedBy(w, c, revisions) = {}
           /\ w.co[c].removedRoots # {}

\* The trimmer may drop the ancestry below commit k: some revision is below
\* it and every branch still in use has k in its ancestry
Trimmable(k) ==
    /\ TrimmedBy(k) # {}
    /\ \A b \in 1..Len(branches) :
            ~branches[b].disposed => k \in Range(Ancestry(commits, branches[b].head))

\* C21: when the ancestry below a new tail commit is trimmed, a checkout
\* that receives the notification holds no removed root last touched by a
\* trimmed revision and none last touched by the revision of the new tail.
C21_TailEvicted ==
    \A c \in Checkouts, k \in 1..Len(commits) :
        LET w == Trim([World EXCEPT !.cs[k].parent = Undefined], TrimmedBy(k))
        IN (/\ Trimmable(k)
            /\ ~checkouts[c].disposed
            /\ branches[checkouts[c].branch].subscribed) =>
                TouchedBy(w, c, TrimmedBy(k) \cup {commits[k].revision}) = {}

\* C22: when the body of runTransaction throws after its edits, the error
\* reaches the caller, the head and the tree state of the checkout are the
\* ones before the call, and the transactions in progress are the ones
\* before the call.
C22_FailedTransaction ==
    \A c \in Checkouts, n \in 0..BodyEdits :
        LET w == runTransaction(World, c, n, "throw")
        IN ~checkouts[c].disposed =>
            /\ w.err = "Error"
            /\ HeadIn(w, c) = HeadOf(c)
            /\ w.co[c].forest = checkouts[c].forest
            /\ Len(w.co[c].transactions) = Transactions(c)

\* The edits of the given changes that are part of the tree state of
\* checkout c in w
Holds(w, c, edits) ==
    \A i \in 1..Len(edits) :
        \A a \in Range(edits[i].change) :
            \E j \in 1..Len(w.co[c].forest) : w.co[c].forest[j].id = a.id

\* C23: target.merge(branch) commits the transactions in progress on
\* `branch` first: the merge succeeds, `branch` has no transaction in
\* progress afterwards and the edits of these transactions are merged into
\* the target.
C23_MergeCommitsTransactions ==
    \A c \in Checkouts, src \in Checkouts, d \in BOOLEAN :
        LET w == merge(World, c, src, d, -1)
        IN (/\ c # src
            /\ ~checkouts[c].disposed /\ ~checkouts[src].disposed
            /\ Transactions(c) = 0
            /\ Transactions(src) >= 1) =>
                /\ w.err = ""
                /\ ~isTransacting(w, src)
                /\ Holds(w, c, TopFrame(src).edits)

\* The commit notifications of checkout c in w are one per commit of `new`,
\* in that order, each with a revertible factory unless the commit has a
\* schema change; a listener that keeps the factories holds one per offer.
NotifiedEach(w, c, new, take) ==
    LET changed == SelectSeq(w.ev,
                        LAMBDA e : e.name = "changed" /\ e.branch = BranchOf(c))
        offered == {i \in 1..Len(new) : ~hasSchemaChange(w.cs[new[i]].change)}
    IN /\ Len(changed) = Len(new)
       /\ \A i \in 1..Len(new) :
            /\ changed[i].type = "local"
            /\ changed[i].newCommits = <<new[i]>>
            /\ (changed[i].info = "factory") <=> i \in offered
       /\ take >= 0 =>
            {f.commit : f \in {g \in w.fa \ factories : g.co = c}}
                = {new[i] : i \in offered}

\* C24: a merge that brings k >= 1 commits onto a target checkout with no
\* transaction in progress emits exactly k commit notifications on the
\* target, one per merged commit from the oldest to the newest, each with a
\* revertible factory unless the commit has a schema change.  The source
\* makes one more edit, of the data or of the schema, before it is merged.
C24_NotificationPerMergedCommit ==
    \A c \in Checkouts, src \in Checkouts, schema \in BOOLEAN, take \in Listeners :
        LET Merged(w) ==
                (w.err = "" /\ HeadIn(w, c) # HeadOf(c)) =>
                    NotifiedEach(w, c, PathAfter(w.cs, HeadOf(c), HeadIn(w, c)), take)
        IN (/\ c # src
            /\ ~checkouts[c].disposed /\ ~checkouts[src].disposed
            /\ Transactions(c) = 0 /\ Transactions(src) = 0) =>
                Merged(merge(Caught(Edit(World, src, schema, -1)), c, src, FALSE, take))

\* A source with a data edit and a schema edit of its own is merged into a
\* target whose listener keeps the factories
C24_Witness ==
    \E c \in Checkouts, src \in Checkouts :
        LET Merged(w) ==
                /\ w.err = "" /\ Fits(w, BrCommits + 1)
                /\ Len(PathAfter(w.cs, HeadOf(c), HeadIn(w, c))) >= 2
                /\ NotifiedEach(w, c, PathAfter(w.cs, HeadOf(c), HeadIn(w, c)), 1)
                /\ Cardinality({g \in w.fa \ factories : g.co = c}) >= 1
                /\ Cardinality({g \in w.fa \ factories : g.co = c})
                        < Len(PathAfter(w.cs, HeadOf(c), HeadIn(w, c)))
        IN /\ c # src
           /\ Merged(merge(Caught(Edit(World, src, TRUE, -1)), c, src, FALSE, 1))

\* Every commit of branch other has its revision in the ancestry of branch b
NothingNew(b, other) ==
    \A i \in 1..Len(Ancestry(commits, branches[other].head)) :
        commits[Ancestry(commits, branches[other].head)[i]].revision
            \in {commits[j].revision : j \in Range(Ancestry(commits, branches[b].head))}

\* C25: branch.merge(other) returns undefined, leaves the head of the branch
\* unchanged and emits no event when other is the branch itself, when the
\* heads are equal, or when other has no commit that is not in the ancestry
\* of the branch already.
C25_NoOpMerge ==
    \A b \in DOMAIN branches, other \in DOMAIN branches, take \in Listeners :
        LET Merged(w) ==
                /\ w.err = ""
                /\ w.res.val = "undefined"
                /\ w.br[b].head = branches[b].head
                /\ w.ev = <<>>
        IN (/\ ~branches[b].disposed /\ ~branches[other].disposed
            /\ \/ other = b
               \/ branches[other].head = branches[b].head
               \/ NothingNew(b, other)) =>
                Merged(BranchMerge(World, b, other, take))

\* The other branch has commits of its own whose revisions the branch has
\* already, in rebased form, and the merge changes nothing
C25_Witness ==
    \E b \in DOMAIN branches, other \in DOMAIN branches :
        LET Merged(w) ==
                /\ w.err = "" /\ w.res.val = "undefined" /\ w.ev = <<>>
                /\ w.br[b].head = branches[b].head
        IN /\ ~branches[b].disposed /\ ~branches[other].disposed
           /\ other # b
           /\ NothingNew(b, other)
           /\ CommonAncestor(commits, branches[other].head, branches[b].head) # branches[other].head
           /\ Merged(BranchMerge(World, b, other, 1))

\* C26: a commitTransaction that squashes one or more commits is seen by the
\* listeners of the branch as one change: no beforeChange or afterChange
\* listener runs while the head of the branch is the start commit of the
\* transaction, the edits removed and the squash commit not applied yet.
C26_SquashIsOneChange ==
    \A c \in Checkouts, take \in Listeners :
        LET Committed(w) ==
                \A i \in 1..Len(w.ev) :
                    (/\ w.ev[i].name \in {"beforeChange", "afterChange"}
                     /\ w.ev[i].branch = BranchOf(c)) =>
                        w.ev[i].head # TopFrame(c).head0
        IN (/\ ~checkouts[c].disposed
            /\ Transactions(c) >= 1
            /\ HeadOf(c) # TopFrame(c).head0) =>
                Committed(commitTransaction(World, c, take))

\* C28: rollback(targetRevision) removes exactly the commits after the target
\* commit up to the old head, and the change of its event is the composition
\* of the inverses of those commits, the newest first: the target commit is
\* not inverted, and a rollback to the revision of the head removes nothing
\* and carries no change.
C28_RollbackRange ==
    \A b \in DOMAIN branches :
        \A k \in 1..Len(Ancestry(commits, branches[b].head)) :
            LET path == Ancestry(commits, branches[b].head)
                removed == SubSeq(path, k + 1, Len(path))
                RolledBack(w) ==
                    LET before == SelectSeq(w.ev,
                            LAMBDA e : e.name = "beforeChange" /\ e.branch = b)
                    IN /\ w.err = ""
                       /\ w.br[b].head = path[k]
                       /\ Len(before) = 1
                       /\ before[1].removedCommits = removed
                       /\ before[1].change =
                            IF removed = <<>> THEN <<>>
                            ELSE <<[revision |-> Undefined,
                                    change |-> Compose(
                                        [i \in 1..Len(removed) |->
                                            [change |-> Invert(
                                                commits[removed[Len(removed) + 1 - i]].change)]])]>>
            IN RolledBack(BranchRollback(World, b, commits[path[k]].revision))

\* The revisions of the commits in the ancestry of branch b
OnBranch(b) ==
    {commits[i].revision : i \in Range(Ancestry(commits, branches[b].head))}

\* C29: rollback(targetRevision) with a revision that is not in the ancestry
\* of the branch fails, leaves the head unchanged and emits neither
\* beforeChange nor afterChange.
C29_RollbackUnknownRevision ==
    \A b \in DOMAIN branches, revision \in 1..nextRev :
        LET Failed(w) ==
                /\ w.err = "assert"
                /\ w.br = branches
                /\ w.cs = commits
                /\ w.co = checkouts
                /\ w.ev = <<>>
        IN revision \notin OnBranch(b) =>
                Failed(BranchRollback(World, b, revision))

\* The revision is that of a commit of another branch, and the branch has
\* commits of its own that a rollback could have removed
C29_Witness ==
    \E b \in DOMAIN branches, other \in DOMAIN branches :
        \E revision \in OnBranch(other) \ OnBranch(b) :
            LET Failed(w) ==
                    /\ w.err = "assert"
                    /\ w.br[b].head = branches[b].head
                    /\ w.ev = <<>>
            IN /\ Len(Ancestry(commits, branches[b].head)) >= 2
               /\ \E c \in Checkouts : checkouts[c].branch = b /\ ~checkouts[c].disposed
               /\ Failed(BranchRollback(World, b, revision))

\* The call that ran from `given` to w on branch b was refused by the
\* beforeChange listener: the error reaches the caller, beforeChange was
\* emitted once and afterChange not at all, and no head has moved.
RejectedByListener(given, w, b) ==
    /\ w.err = "Error"
    /\ Len(BranchEvents(w, b, "beforeChange")) = 1
    /\ \A i \in 1..Len(w.ev) : w.ev[i].name # "afterChange"
    /\ w.br = given.br
    /\ Ancestry(w.cs, w.br[b].head) = Ancestry(given.cs, given.br[b].head)

\* C30: when a beforeChange listener throws during apply, rollback,
\* rebaseOnto or merge, the head of the branch is not changed, afterChange
\* is not emitted for the operation and the error reaches the caller: the
\* rejected change is not in the commit graph of the branch.
C30_ListenerRejects ==
    \A b \in DOMAIN branches :
        LET given == [World EXCEPT !.throws = {b}]
            Emits(w) == w.err = "" /\ BranchEvents(w, b, "beforeChange") # <<>>
            Rejects(plain, w) == Emits(plain) => RejectedByListener(given, w, b)
        IN /\ \A schema \in BOOLEAN, take \in Listeners :
                Rejects(BranchApply(World, b, nextRev, EditChange(nextRev, schema), "Default", take),
                        BranchApply(given, b, nextRev, EditChange(nextRev, schema), "Default", take))
           /\ \A revision \in 1..nextRev :
                Rejects(BranchRollback(World, b, revision),
                        BranchRollback(given, b, revision))
           /\ \A other \in DOMAIN branches, take \in Listeners :
                /\ Rejects(BranchMerge(World, b, other, take),
                           BranchMerge(given, b, other, take))
                /\ \A upTo \in Range(Ancestry(commits, branches[other].head)) :
                        Rejects(BranchRebaseOnto(World, b, other, upTo, take),
                                BranchRebaseOnto(given, b, other, upTo, take))

\* A branch with commits of its own and a checkout rejects, through its
\* beforeChange listener, an edit, a rollback of its newest commit, a merge
\* of another branch and a rebase over that branch
C30_Witness ==
    \E b \in DOMAIN branches, other \in DOMAIN branches :
        LET given == [World EXCEPT !.throws = {b}]
            path == Ancestry(commits, branches[b].head)
        IN /\ Len(path) >= 2
           /\ OwnerOf(World, b) # 0
           /\ RejectedByListener(given,
                BranchApply(given, b, nextRev, EditChange(nextRev, FALSE), "Default", 1), b)
           /\ RejectedByListener(given,
                BranchRollback(given, b, commits[path[Len(path) - 1]].revision), b)
           /\ RejectedByListener(given, BranchMerge(given, b, other, 1), b)
           /\ RejectedByListener(given,
                BranchRebaseOnto(given, b, other, branches[other].head, 1), b)

\* The commits of src after the common ancestor with tgt whose revision is
\* not in the ancestry of tgt, oldest first
NotIn(src, tgt) ==
    SelectSeq(Divergent(src, tgt),
        LAMBDA i : commits[i].revision \notin OnBranch(BranchOf(tgt)))

\* C27: after target.merge(source), where source has one or more commits
\* that are not in the ancestry of target, the previous head of target is an
\* ancestor of its new head and the commits above it are the rebased forms
\* of those commits of source in their order; one beforeChange and one
\* afterChange of type append are emitted, whose newCommits are the rebased
\* commits and whose change is their composition; the head of source is
\* unchanged.
C27_MergeAppends ==
    \A tgt \in Checkouts, src \in Checkouts, take \in Listeners :
        LET b == BranchOf(tgt)
            Merged(w) ==
                LET old == Ancestry(commits, HeadOf(tgt))
                    now == Ancestry(w.cs, HeadIn(w, tgt))
                    new == SubSeq(now, Len(old) + 1, Len(now))
                    events == ChangeEvents(w, b)
                IN /\ w.err = ""
                   /\ SubSeq(now, 1, Len(old)) = old
                   /\ Revisions(w.cs, new) = Revisions(commits, NotIn(src, tgt))
                   /\ \A i \in 1..Len(new) :
                        w.cs[new[i]].change =
                            Rebase(commits[NotIn(src, tgt)[i]].change,
                                   Compose([j \in 1..Len(Divergent(tgt, src)) |->
                                                commits[Divergent(tgt, src)[j]]]))
                   /\ Len(events) = 2
                   /\ events[1].name = "beforeChange" /\ events[2].name = "afterChange"
                   /\ \A i \in 1..2 :
                        /\ events[i].type = "append"
                        /\ events[i].newCommits = new
                        /\ events[i].change =
                            <<[revision |-> Undefined,
                               change |-> Compose([j \in 1..Len(new) |-> w.cs[new[j]]])]>>
                   /\ HeadIn(w, src) = HeadOf(src)
        IN (/\ tgt # src
            /\ ~branches[b].disposed /\ ~branches[BranchOf(src)].disposed
            /\ NotIn(src, tgt) # <<>>) =>
                Merged(BranchMerge(World, b, BranchOf(src), take))

\* The source has two commits of its own and the target one; the two are
\* rebased over the one and appended to the target in their order
C27_Witness ==
    \E tgt \in Checkouts, src \in Checkouts :
        LET Merged(w) ==
                /\ w.err = "" /\ Fits(w, BrCommits)
                /\ Len(Ancestry(w.cs, HeadIn(w, tgt)))
                        = Len(Ancestry(commits, HeadOf(tgt))) + 2
                /\ Len(ChangeEvents(w, BranchOf(tgt))) = 2
                /\ ChangeEvents(w, BranchOf(tgt))[1].newCommits = Minted(w)
        IN /\ Len(NotIn(src, tgt)) = 2 /\ Len(Divergent(tgt, src)) = 1
           /\ Merged(BranchMerge(World, BranchOf(tgt), BranchOf(src), 1))

\* C31: commitTransaction on a transaction in which no commit was made is a
\* no-op on the branch: the head is unchanged, neither beforeChange nor
\* afterChange nor a commit notification is emitted, and of the checkout only
\* the frame of the transaction (with its snapshot of the removed roots) is
\* popped.
C31_EmptyCommit ==
    \A c \in Checkouts, take \in Listeners :
        LET Committed(w) ==
                /\ w.err = ""
                /\ w.br = branches
                /\ w.cs = commits
                /\ w.ev = <<>>
                /\ w.fa = factories /\ w.hs = handles
                /\ w.co = [checkouts EXCEPT
                            ![c].transactions = Front(@),
                            ![c].removedRootsSnapshots = Front(@)]
        IN (/\ ~checkouts[c].disposed
            /\ Transactions(c) >= 1
            /\ Last(checkouts[c].transactions).startRevision
                    = commits[HeadOf(c)].revision) =>
                Committed(commitTransaction(World, c, take))

\* A nested transaction without edits is committed inside a transaction
\* that has made an edit
C31_Witness ==
    \E c \in Checkouts :
        LET Committed(w) ==
                /\ w.err = "" /\ w.ev = <<>>
                /\ Len(w.co[c].transactions) = 1
                /\ HeadIn(w, c) = HeadOf(c)
        IN /\ Transactions(c) = 2
           /\ Last(checkouts[c].transactions).startRevision = commits[HeadOf(c)].revision
           /\ checkouts[c].transactions[1].startRevision # commits[HeadOf(c)].revision
           /\ Committed(commitTransaction(World, c, 1))

\* C32: disposing a checkout while transactions are in progress aborts them
\* and completes without error: afterwards no transaction is in progress,
\* the branch of the checkout is disposed and every revertible of the
\* checkout is Disposed.
C32_DisposeInTransaction ==
    \A c \in Checkouts :
        LET Disposed(w) ==
                /\ w.err = ""
                /\ w.co[c].disposed
                /\ w.co[c].transactions = <<>>
                /\ w.br[BranchOf(c)].disposed
                /\ \A h \in handles : h.co = c => Status(w, c, h.revision) = "Disposed"
        IN (~checkouts[c].disposed /\ Transactions(c) >= 1) =>
                Disposed(dispose(World, c))

\* C33: after a checkout with no transaction in progress is disposed, every
\* revertible it ever produced is Disposed, the branches that were pinned
\* for its revertibles are disposed, and the registries of revertibles and
\* of pinned branches are empty; a second dispose throws a usage error.
C33_DisposePurges ==
    \A c \in Checkouts :
        LET Again(w, w2) ==
                /\ w2.err = "UsageError"
                /\ w2 = Throw(w, "UsageError")
            Disposed(w) ==
                /\ w.err = ""
                /\ w.co[c].disposed
                /\ \A h \in handles : h.co = c => Status(w, c, h.revision) = "Disposed"
                /\ \A p \in checkouts[c].revertibleCommitBranches : w.br[p.branch].disposed
                /\ w.co[c].revertibles = {}
                /\ w.co[c].revertibleCommitBranches = {}
                /\ w.br[BranchOf(c)].disposed
                /\ Again(w, dispose(w, c))
        IN (~checkouts[c].disposed /\ Transactions(c) = 0) =>
                Disposed(dispose(World, c))

\* The checkout has a Valid and a Disposed revertible when it is disposed
C33_Witness ==
    \E c \in Checkouts, h \in handles, g \in handles :
        LET Disposed(w) ==
                /\ w.err = ""
                /\ w.co[c].revertibleCommitBranches = {}
                /\ \A p \in checkouts[c].revertibleCommitBranches : w.br[p.branch].disposed
                /\ dispose(w, c).err = "UsageError"
        IN /\ ~checkouts[c].disposed /\ Transactions(c) = 0
           /\ h.co = c /\ g.co = c
           /\ Valid(World, h) /\ ~Valid(World, g)
           /\ Disposed(dispose(World, c))

\* The call failed on an assertion and changed nothing
Asserted(w) == w = Throw(World, "assert")

\* C34: target.merge(source) fails and changes neither head when target has
\* a transaction in progress; target.rebase(source) fails and changes
\* neither head when source has a transaction in progress or is the main
\* checkout, which is no fork.
C34_TransactionPreconditions ==
    \A tgt \in Checkouts, src \in Checkouts :
        (~checkouts[tgt].disposed /\ ~checkouts[src].disposed) =>
            /\ Transactions(tgt) >= 1 =>
                \A disposeMerged \in BOOLEAN, take \in Listeners :
                    Asserted(merge(World, tgt, src, disposeMerged, take))
            /\ (Transactions(src) >= 1 \/ ~checkouts[src].isBranch) =>
                    Asserted(rebase(World, tgt, src))

\* The target of the merge is in a transaction and the source has a commit
\* that the target has not; the source of the rebase is in a transaction and
\* the target has a commit that the source has not
C34_Witness ==
    \E tgt \in Checkouts, src \in Checkouts :
        /\ tgt # src
        /\ ~checkouts[tgt].disposed /\ ~checkouts[src].disposed
        /\ Transactions(tgt) >= 1 /\ Transactions(src) = 0
        /\ NotIn(src, tgt) # <<>> /\ NotIn(tgt, src) # <<>>
        /\ checkouts[tgt].isBranch
        /\ Asserted(merge(World, tgt, src, FALSE, 1))
        /\ Asserted(rebase(World, src, tgt))

\* C35: when a fork of checkout c is rebased onto c (c.rebase(fork)) while c
\* has a transaction in progress with one or more edits, the commitTransaction
\* that follows on c still replaces the commits that c applied since the
\* start of the transaction with exactly one squash commit on top of the
\* start commit of the transaction.
C35_SquashAfterForkRebase ==
    \A c \in Checkouts, f \in Checkouts, take \in Listeners :
        LET frame == TopFrame(c)
            Committed(w) ==
                /\ w.err = ""
                /\ Ancestry(w.cs, HeadIn(w, c))
                        = Append(Ancestry(commits, frame.head0), HeadIn(w, c))
                /\ HeadIn(w, c) \notin 1..Len(commits)
                /\ w.cs[HeadIn(w, c)].change = Compose(frame.edits)
            Rebased(w1) == w1.err = "" => Committed(commitTransaction(w1, c, take))
        IN (/\ c # f
            /\ ~checkouts[c].disposed /\ ~checkouts[f].disposed
            /\ Transactions(c) = 1 /\ Len(frame.edits) >= 1 /\ frame.clean
            /\ branches[BranchOf(f)].origin = BranchOf(c)) =>
                Rebased(rebase(World, c, f))

\* C36: after every startTransaction, commitTransaction and abortTransaction
\* of a checkout, with or without edits in the transaction, the editor's
\* count of transactions (enterTransaction calls less exitTransaction calls)
\* and the number of snapshots of the removed roots both equal the number of
\* transactions in progress.
C36_EditorNesting ==
    \A c \in Checkouts :
        /\ checkouts[c].editorDepth = Transactions(c)
        /\ Len(checkouts[c].removedRootsSnapshots) = Transactions(c)

\* C37: runSynchronous leaves no transaction open: whether the transaction
\* function returns Abort, returns anything else or throws, as many
\* transactions are in progress when runSynchronous exits as when it was
\* called, and after a throw the head is the head before the call.
C37_RunSynchronousCloses ==
    \A c \in Checkouts, n \in 0..BodyEdits, result \in {"abort", "commit", "throw"} :
        LET Exited(w) ==
                /\ Len(w.co[c].transactions) = Transactions(c)
                /\ result = "throw" => (w.err = "Error" /\ HeadIn(w, c) = HeadOf(c))
        IN ~checkouts[c].disposed => Exited(runSynchronous(World, c, n, result))

\* The branches forked for the revertible h of revision r: the forks of the
\* checkout's branch that no checkout owns and whose head has revision r
PinnedFor(h) ==
    {b \in DOMAIN branches :
        /\ OwnerOf(World, b) = 0
        /\ branches[b].origin = BranchOf(h.co)
        /\ commits[branches[b].head].revision = h.revision}

InArrivalOrder(messages) ==
    \A i \in 1..Len(messages), j \in 1..Len(messages) :
        i < j => messages[i].clientSequenceNumber < messages[j].clientSequenceNumber

LiveNodes(key) ==
    {n \in 1..Len(anchorNodes) : anchorNodes[n].key = key /\ ~anchorNodes[n].destroyed}

\* C40: after any sequence of node indexings and anchor node destructions,
\* the index maps each key to exactly the anchor nodes that were indexed
\* under the key and have not been destroyed, each of them once, and has no
\* entry for a key whose nodes were all destroyed: destroying one node
\* neither drops nor resurrects other nodes of the same key.
C40_IndexTracksLiveNodes ==
    \A key \in Keys :
        /\ Range(indexNodes[key]) = LiveNodes(key)
        /\ Len(indexNodes[key]) = Cardinality(LiveNodes(key))

====
